---------------------------- MODULE Spec2Model ----------------------------
(***************************************************************************)
(* A model of the sink virtual machine (src/src2/sink.c): the bytecode     *)
(* verifier, the dispatch loop of a context with its tick budget and its    *)
(* async continuation, the wait objects, and the binary module loader.      *)
(***************************************************************************)
EXTENDS Integers, Sequences, FiniteSets, TLC

VARIABLES
    prg,        \* program: [ops, strs, keys, repl] (opcode bytes, table sizes, REPL flag)
    valid,      \* result of program_validate on prg: "unknown", "yes" or "no"
    ctx,        \* context_st: the execution state of the one context
    waits,      \* the wait_st objects of the context, by identity
    control,    \* [at, wrun, fire]: "host" or "vm" (inside context_run_w), the wait
                \* of the active run, and the wait_fire calls whose handler is running
    host,       \* what the host has observed and holds (outputs, results, handles)
    ghost,      \* history: per-run opcode counts, fired handlers, faults
    scr         \* script_st: the loader state (mode, binstate, err, file)

vars == <<prg, valid, ctx, waits, control, host, ghost, scr>>

-----------------------------------------------------------------------------
(* Opcodes (op_enum) and operand categories (op_pcat)                       *)

OP_NOP == 0
OP_MOVE == 1
OP_INC == 2
OP_NIL == 3
OP_NUMP8 == 4
OP_STR == 11
OP_JUMP == 28
OP_JUMPTRUE == 29
OP_JUMPFALSE == 30
OP_CMDHEAD == 31
OP_CMDTAIL == 32
OP_CALL == 33
OP_ISNATIVE == 34
OP_NATIVE == 35
OP_RETURN == 36
OP_RETURNTAIL == 37
OP_SAY == 40
OP_EXIT == 43
OP_ABORT == 44
OP_GC_RUN == 152

\* op_paramcat: the operand shape of each opcode byte
op_paramcat(op) ==
    CASE op = 0 -> "EMPTY"
      [] op \in {1} \cup (13..18) \cup {46} \cup (53..54) \cup (58..61) \cup (64..71)
            \cup (73..76) \cup (81..82) \cup (94..97) \cup (103..105) \cup (114..117)
            \cup {119} \cup (122..125) \cup (130..131) \cup (139..149) \cup {151} -> "VV"
      [] op \in (2..3) \cup {36, 45} \cup (62..63) \cup (98..100) \cup {102, 128, 150, 152} -> "V"
      [] op \in {4, 5, 12} -> "VN"
      [] op \in {6, 7} -> "VNN"
      [] op \in {8, 9} -> "VNNNN"
      [] op = 10 -> "VNNNNNNNN"
      [] op = 11 -> "STR"
      [] op \in {19} \cup (40..44) \cup (55..56) \cup (83..85) \cup {106} -> "VA"
      [] op \in (20..24) \cup {26, 39} \cup (47..52) \cup {72} \cup (78..80) \cup (86..93)
            \cup {107} \cup (109..111) \cup {118} \cup (120..121) \cup (126..127) \cup {129}
            \cup (132..135) \cup {138} -> "VVV"
      [] op \in {25, 27, 38, 57, 77, 101, 108} \cup (112..113) \cup (136..137) -> "VVVV"
      [] op = 28 -> "JUMP"
      [] op \in {29, 30} -> "VJUMP"
      [] op = 31 -> "CMDHEAD"
      [] op = 32 -> "CMDTAIL"
      [] op = 33 -> "CALL"
      [] op = 34 -> "ISNATIVE"
      [] op = 35 -> "NATIVE"
      [] op = 37 -> "RETURNTAIL"
      [] OTHER -> "INVALID"

\* ops->bytes[i], with C's zero-based index
ByteAt(ops, i) == ops[i + 1]

\* A + (B << 8) + (C << 16) + ((D << 23) * 2): a little-endian word as the
\* 32-bit int holds it (a uint32_t holds the same bits: negative here is
\* 0x80000000 or more there)
LE32(ops, i) ==
    LET D == ByteAt(ops, i + 3)
    IN  ByteAt(ops, i) + ByteAt(ops, i + 1) * 256 + ByteAt(ops, i + 2) * 65536
            + (IF D >= 128 THEN D - 256 ELSE D) * 16777216

-----------------------------------------------------------------------------
(* program_validate                                                         *)

\* the verifier's locals at the top of its loop
ValInit(ops) ==
    [pc |-> 0, level |-> 0, wasjump |-> FALSE, jumploc |-> 0, jumplocs |-> <<>>,
     op_actual |-> [i \in 0..(Len(ops) - 1) |-> 0],
     op_need |-> [i \in 0..(Len(ops) - 1) |-> 0],
     A |-> 0, fail |-> FALSE]

\* READVAR: a (frame, index) pair whose frame may not exceed the current level
READVAR(ops, st) ==
    IF st.fail THEN st
    ELSE IF st.pc + 2 > Len(ops) THEN [st EXCEPT !.fail = TRUE]
    ELSE IF ByteAt(ops, st.pc) > st.level THEN [st EXCEPT !.fail = TRUE]
    ELSE [st EXCEPT !.pc = @ + 2]

\* the target location a READLOC decodes
READLOC_need(ops, st, L, loc) ==
    IF loc < Len(ops) THEN [st.op_need EXCEPT ![loc] = L] ELSE st.op_need

\* READLOC(L): a 32-bit location, recorded as needing alignment L if inside the buffer
READLOC(ops, st, L) ==
    IF st.fail THEN st
    ELSE IF st.pc + 4 > Len(ops) THEN [st EXCEPT !.fail = TRUE]
    ELSE LET loc == LE32(ops, st.pc) IN
         IF loc < 0 THEN [st EXCEPT !.fail = TRUE]
         ELSE [st EXCEPT !.pc = @ + 4, !.jumploc = loc,
                         !.op_need = READLOC_need(ops, st, L, loc)]

\* READDATA(S): S bytes of immediate data
READDATA(ops, st, S) ==
    IF st.fail THEN st
    ELSE IF st.pc + S > Len(ops) THEN [st EXCEPT !.fail = TRUE]
    ELSE [st EXCEPT !.pc = @ + S]

RECURSIVE READVARS(_, _, _)
READVARS(ops, st, n) ==
    IF n = 0 \/ st.fail THEN st ELSE READVARS(ops, READVAR(ops, st), n - 1)

\* READCNT: an argument count followed by that many READVARs
READCNT(ops, st) ==
    IF st.fail THEN st
    ELSE IF st.pc + 1 > Len(ops) THEN [st EXCEPT !.fail = TRUE]
    ELSE READVARS(ops, [st EXCEPT !.pc = @ + 1], ByteAt(ops, st.pc))

\* READINDEX: a 32-bit table index, left in A
READINDEX(ops, st) ==
    IF st.fail THEN st
    ELSE IF st.pc + 4 > Len(ops) THEN [st EXCEPT !.fail = TRUE]
    ELSE [st EXCEPT !.pc = @ + 4, !.A = LE32(ops, st.pc)]

\* the index range test that follows READINDEX
IndexInRange(st, size) ==
    IF st.fail THEN st
    ELSE IF st.A < 0 \/ st.A >= size THEN [st EXCEPT !.fail = TRUE]
    ELSE st

\* case OPPC_CMDHEAD, entered with pc just past the opcode byte
ValCmdHead(ops, st) ==
    IF ~st.wasjump THEN [st EXCEPT !.fail = TRUE]
    ELSE IF st.pc + 2 > Len(ops) THEN [st EXCEPT !.fail = TRUE]
    ELSE IF st.level > 255 THEN [st EXCEPT !.fail = TRUE]
    ELSE LET s1 == [st EXCEPT !.op_actual[st.pc - 1] = 2,
                             !.jumplocs = Append(@, st.jumploc),
                             !.level = @ + 1,
                             !.pc = @ + 2]
         IN  IF ByteAt(ops, st.pc) # s1.level THEN [s1 EXCEPT !.fail = TRUE] ELSE s1

\* case OPPC_CMDTAIL
ValCmdTail(ops, st) ==
    IF st.level <= 0 THEN [st EXCEPT !.fail = TRUE]
    ELSE LET s1 == [st EXCEPT !.level = @ - 1,
                             !.jumplocs = SubSeq(@, 1, Len(@) - 1)]
         IN  IF st.jumplocs[st.level] # st.pc THEN [s1 EXCEPT !.fail = TRUE] ELSE s1

\* the level test of case OPPC_RETURNTAIL on the call target
ValReturnTailTarget(ops, st) ==
    IF st.fail THEN st
    ELSE IF st.jumploc < Len(ops) - 1
            /\ (ByteAt(ops, st.jumploc) # OP_CMDHEAD
                \/ ByteAt(ops, st.jumploc + 1) # st.level)
         THEN [st EXCEPT !.fail = TRUE]
    ELSE st

\* one iteration of the verifier's while loop
ValStep(ops, strs, keys, st) ==
    LET opc == op_paramcat(ByteAt(ops, st.pc))
        s0 == [st EXCEPT !.op_actual[st.pc] = 1, !.pc = @ + 1]
        s1 == CASE opc = "INVALID" -> [s0 EXCEPT !.fail = TRUE]
                [] opc = "STR" -> IndexInRange(READINDEX(ops, READVAR(ops, s0)), strs)
                [] opc = "CMDHEAD" -> ValCmdHead(ops, s0)
                [] opc = "CMDTAIL" -> ValCmdTail(ops, s0)
                [] opc = "JUMP" -> READLOC(ops, s0, 1)
                [] opc = "VJUMP" -> READLOC(ops, READVAR(ops, s0), 1)
                [] opc = "CALL" -> READCNT(ops, READLOC(ops, READVAR(ops, s0), 2))
                [] opc = "ISNATIVE" -> IndexInRange(READINDEX(ops, READVAR(ops, s0)), keys)
                [] opc = "NATIVE" ->
                    READCNT(ops, IndexInRange(READINDEX(ops, READVAR(ops, s0)), keys))
                [] opc = "RETURNTAIL" ->
                    ValReturnTailTarget(ops, READCNT(ops, READLOC(ops, s0, 2)))
                [] opc = "VVVV" -> READVARS(ops, s0, 4)
                [] opc = "VVV" -> READVARS(ops, s0, 3)
                [] opc = "VV" -> READVARS(ops, s0, 2)
                [] opc = "V" -> READVARS(ops, s0, 1)
                [] opc = "EMPTY" -> s0
                [] opc = "VA" -> READCNT(ops, READVAR(ops, s0))
                [] opc = "VN" -> READDATA(ops, READVAR(ops, s0), 1)
                [] opc = "VNN" -> READDATA(ops, READVAR(ops, s0), 2)
                [] opc = "VNNNN" -> READDATA(ops, READVAR(ops, s0), 4)
                [] opc = "VNNNNNNNN" -> READDATA(ops, READVAR(ops, s0), 8)
    IN  [s1 EXCEPT !.wasjump = (opc = "JUMP")]

RECURSIVE ValWalk(_, _, _, _)
ValWalk(ops, strs, keys, st) ==
    IF st.fail \/ st.pc >= Len(ops) THEN st
    ELSE ValWalk(ops, strs, keys, ValStep(ops, strs, keys, st))

\* the closing loop: every needed alignment matches the actual one
AlignmentOk(ops, st) ==
    \A i \in 0..(Len(ops) - 1) : st.op_need[i] = 0 \/ st.op_need[i] = st.op_actual[i]

program_validate(p) ==
    LET st == ValWalk(p.ops, p.strs, p.keys, ValInit(p.ops))
    IN  ~st.fail /\ AlignmentOk(p.ops, st)

-----------------------------------------------------------------------------
(* Values, frames and the context                                           *)

SINK_RUN_PASS == 0
SINK_RUN_FAIL == 1
SINK_RUN_ASYNC == 2
SINK_RUN_TIMEOUT == 3
SINK_RUN_REPLMORE == 4

SINK_GC_NONE == 0
SINK_GC_DEFAULT == 1
SINK_GC_LOWMEM == 2

\* the number of ticks a garbage collection consumes
SINK_GC_TICKS == 100
GcLeftDefault == 10000
GcLeftLowmem == 1000

\* sink_val: nil, a number, a string (index) or a list
SINK_NIL == [t |-> "nil", n |-> 0, v |-> <<>>]
sink_num(x) == [t |-> "num", n |-> x, v |-> <<>>]
StrVal(i) == [t |-> "str", n |-> i, v |-> <<>>]
ListVal(s) == [t |-> "list", n |-> 0, v |-> s]
sink_isnil(x) == x.t = "nil"
sink_isnum(x) == x.t = "num"
sink_isstr(x) == x.t = "str"
sink_islist(x) == x.t = "list"
sink_bool(b) == IF b THEN sink_num(1) ELSE SINK_NIL

\* lxs_st.vals: 256 registers, kept as the map of the registers that are not nil
EmptyFrame == [i \in {} |-> SINK_NIL]
FrameGet(f, i) == IF i \in DOMAIN f THEN f[i] ELSE SINK_NIL
FrameSet(f, i, val) ==
    IF sink_isnil(val) THEN [j \in (DOMAIN f) \ {i} |-> f[j]]
    ELSE [j \in (DOMAIN f) \cup {i} |-> IF j = i THEN val ELSE f[j]]

\* lxs_new / lxs_get: a frame holding the arguments, nil elsewhere
lxs_get(args) ==
    [i \in {j \in 0..255 : j < Len(args) /\ ~sink_isnil(args[j + 1])} |-> args[i + 1]]

\* whether lex_stk->ptrs[frame] is a frame that var_get / var_set may use
FrameLive(c, frame) ==
    frame >= 0 /\ frame < Len(c.lex_stk) /\ c.lex_stk[frame + 1] # <<>>

var_get(c, frame, index) == FrameGet(c.lex_stk[frame + 1][1], index)

var_set(c, frame, index, val) ==
    [c EXCEPT !.lex_stk[frame + 1][1] = FrameSet(@, index, val)]

\* context_gcleft
context_gcleft(c, set) ==
    IF set THEN
        IF c.gc_level = SINK_GC_DEFAULT THEN [c EXCEPT !.gc_left = GcLeftDefault]
        ELSE IF c.gc_level = SINK_GC_LOWMEM THEN [c EXCEPT !.gc_left = GcLeftLowmem]
        ELSE c
    ELSE
        IF c.gc_level = SINK_GC_DEFAULT /\ c.gc_left > GcLeftDefault
            THEN [c EXCEPT !.gc_left = GcLeftDefault]
        ELSE IF c.gc_level = SINK_GC_LOWMEM /\ c.gc_left > GcLeftLowmem
            THEN [c EXCEPT !.gc_left = GcLeftLowmem]
        ELSE c

\* context_new
context_new(p) ==
    [pc |-> 0, lastpc |-> 0, lex_index |-> 0,
     lex_stk |-> << <<EmptyFrame>> >>, call_stk |-> <<>>,
     passed |-> FALSE, failed |-> FALSE, async |-> FALSE,
     async_frame |-> 0, async_index |-> 0,
     timeout |-> 0, timeout_left |-> 0,
     gc_level |-> SINK_GC_DEFAULT, gc_left |-> GcLeftDefault,
     err |-> "NULL", pinned |-> <<>>,
     natives |-> IF p.repl THEN <<>> ELSE [i \in 1..p.keys |->
                                                [hash |-> i, natuser |-> 0, f_native |-> FALSE]],
     wait_pending |-> <<>>, wait_avail |-> <<>>]

\* context_native, for a hash of the key table (sink_ctx_nativehash)
context_native(c, hash, natuser) ==
    IF ~prg.repl /\ \E i \in 1..Len(c.natives) : c.natives[i].hash = hash
    THEN LET i == CHOOSE k \in 1..Len(c.natives) :
                    c.natives[k].hash = hash
                    /\ \A j \in 1..(k - 1) : c.natives[j].hash # hash
         IN  IF c.natives[i].f_native
             THEN [c EXCEPT !.failed = TRUE, !.err = "Error: Hash collision"]
             ELSE [c EXCEPT !.natives[i].natuser = natuser, !.natives[i].f_native = TRUE]
    ELSE IF prg.repl
         THEN [c EXCEPT !.natives = Append(@, [hash |-> hash, natuser |-> natuser,
                                               f_native |-> TRUE])]
    ELSE c

\* an unpin that takes every pin of the value away
C14_UnpinAll(c, val) == [c EXCEPT !.pinned = SelectSeq(@, LAMBDA x : x # val)]

\* context_gcpin / context_gcunpin
context_gcpin(c, val) ==
    IF ~sink_isstr(val) /\ ~sink_islist(val) THEN c
    ELSE [c EXCEPT !.pinned = Append(@, val)]

SeqRemoveAt(s, i) == SubSeq(s, 1, i - 1) \o SubSeq(s, i + 1, Len(s))

context_gcunpin(c, val) ==
    IF ~sink_isstr(val) /\ ~sink_islist(val) THEN c
    ELSE IF \E i \in 1..Len(c.pinned) : c.pinned[i] = val
         THEN LET i == CHOOSE k \in 1..Len(c.pinned) :
                        c.pinned[k] = val /\ \A j \in 1..(k - 1) : c.pinned[j] # val
              IN  [c EXCEPT !.pinned = SeqRemoveAt(@, i)]
         ELSE c

\* context_gc: the collection itself frees nothing a register or a pin reaches;
\* its effect on the budgets is the reset of gc_left and the cost in ticks
context_gc(c) ==
    LET c1 == context_gcleft(c, TRUE)
    IN  IF c1.timeout_left <= SINK_GC_TICKS THEN [c1 EXCEPT !.timeout_left = 0]
        ELSE [c1 EXCEPT !.timeout_left = @ - SINK_GC_TICKS]

\* the frames a call record's pop releases: lex_stk->ptrs[lex_index] = lx->next
PopFrame(c) ==
    [c EXCEPT !.lex_stk[c.lex_index + 1] = SubSeq(@, 2, Len(@))]

\* context_reset: unwind every call, fast-forward to the end of the program
RECURSIVE context_unwind(_)
context_unwind(c) ==
    IF Len(c.call_stk) = 0 THEN c
    ELSE LET s == c.call_stk[Len(c.call_stk)]
             c1 == PopFrame(c)
         IN  context_unwind([c1 EXCEPT !.call_stk = SubSeq(@, 1, Len(@) - 1),
                                       !.lex_index = s.lex_index,
                                       !.pc = s.pc])

\* a reset that leaves the pc where the run stopped
C15_ResetKeepsPc(c, size) ==
    [context_unwind(c) EXCEPT !.passed = FALSE, !.failed = FALSE,
                              !.timeout_left = c.timeout]

context_reset(c, size) ==
    [context_unwind(c) EXCEPT !.passed = FALSE, !.failed = FALSE,
                              !.pc = size, !.timeout_left = c.timeout]

\* opi_exit and opi_abort (the message stands for the formatted text and trace)
opi_exit(c) == [c EXCEPT !.passed = TRUE]
opi_abort(c, err) ==
    IF err = "NULL" THEN [c EXCEPT !.failed = TRUE]
    ELSE [c EXCEPT !.failed = TRUE, !.err = err]

\* sink_ctx_getstatus
sink_ctx_getstatus(c) ==
    IF c.passed THEN "PASSED"
    ELSE IF c.failed THEN "FAILED"
    ELSE IF c.async THEN "WAITING"
    ELSE "READY"

\* sink_ctx_settimeout, sink_ctx_consumeticks, sink_ctx_forcetimeout
sink_ctx_settimeout(c, timeout) ==
    LET t == IF timeout < 0 THEN 0 ELSE timeout
    IN  [c EXCEPT !.timeout = t, !.timeout_left = t]

\* the amount of sink_ctx_consumeticks after its two clamps
ConsumeAmount(c, amount) ==
    LET a1 == IF amount > c.timeout_left THEN c.timeout_left ELSE amount
    IN  IF a1 < -c.timeout THEN -c.timeout ELSE a1

\* timeout_left -= amount leaves the range of int: the behaviour is undefined,
\* and a build either wraps the difference or has compared the exact one
IntMax == 2147483647
ConsumeOverflows(c, amount) ==
    /\ ConsumeAmount(c, amount) < 0
    /\ c.timeout_left > IntMax + ConsumeAmount(c, amount)
ConsumeOutcomes(c, amount) ==
    IF ConsumeOverflows(c, amount) THEN {"wrap", "exact"} ELSE {"none"}

\* sink_ctx_consumeticks; ub is the outcome of the overflow, if there is one
sink_ctx_consumeticks(c, amount, ub) ==
    LET a2 == ConsumeAmount(c, amount)
        left == IF ~ConsumeOverflows(c, amount) THEN c.timeout_left - a2
                ELSE IF ub = "wrap"
                THEN ((c.timeout_left - IntMax) - 1) + ((-a2 - IntMax) - 1)
                ELSE IntMax
    IN  [c EXCEPT !.timeout_left = IF left > c.timeout THEN c.timeout ELSE left]

sink_ctx_forcetimeout(c) == [c EXCEPT !.timeout_left = 0]

-----------------------------------------------------------------------------
(* Wait objects                                                             *)

\* the most wait objects the context is let to allocate
MaxWaits == 3

WaitIds == 1..MaxWaits

NoThen == [f_then |-> "NULL", user |-> 0]
FreeWait == [alloc |-> FALSE, has_then |-> FALSE, has_result |-> FALSE,
             result |-> SINK_NIL, then |-> NoThen]

\* whether wait_get can hand out a wait: a released one, or one wait_new allocates
CanGetWait(m) ==
    Len(m.ctx.wait_avail) > 0 \/ \E w \in WaitIds : ~m.waits[w].alloc

\* the wait that wait_get hands out
NextWait(m) ==
    IF Len(m.ctx.wait_avail) > 0 THEN m.ctx.wait_avail[Len(m.ctx.wait_avail)]
    ELSE CHOOSE w \in WaitIds : ~m.waits[w].alloc /\ \A u \in 1..(w - 1) : m.waits[u].alloc

\* wait_get followed by wait_make: the wait is pending, with neither transition done
wait_get_make(m) ==
    LET w == NextWait(m)
        avail == IF Len(m.ctx.wait_avail) > 0
                 THEN SubSeq(m.ctx.wait_avail, 1, Len(m.ctx.wait_avail) - 1)
                 ELSE m.ctx.wait_avail
    IN  [m EXCEPT !.ctx.wait_avail = avail,
                  !.ctx.wait_pending = Append(@, w),
                  !.waits[w] = [alloc |-> TRUE, has_then |-> FALSE, has_result |-> FALSE,
                                result |-> m.waits[w].result, then |-> m.waits[w].then],
                  !.ghost.fired[w] = 0,
                  !.ghost.first[w] = "none"]

\* wait_release: off the pending list, onto the available list
wait_release(m, w) ==
    LET pend == m.ctx.wait_pending
        i == CHOOSE k \in 1..Len(pend) : pend[k] = w
    IN  [m EXCEPT !.ctx.wait_pending = SeqRemoveAt(pend, i),
                  !.ctx.wait_avail = Append(@, w)]

\* the part of wait_fire that follows the handler: unpin the result, release
wait_fire_tail(m, w) ==
    wait_release([m EXCEPT !.ctx = context_gcunpin(@, m.waits[w].result)], w)

\* sink_waiter and sink_done
sink_waiter(m) == wait_get_make(m)

sink_done(m, result) ==
    LET w == NextWait(m)
        m1 == wait_get_make(m)
    IN  [m1 EXCEPT !.waits[w].has_result = TRUE, !.waits[w].result = result,
                   !.ctx = context_gcpin(@, result),
                   !.ghost.first[w] = "result"]

-----------------------------------------------------------------------------
(* context_run_w: entry, RUNDONE, GOTWAIT                                   *)

\* a fault: behaviour the C standard leaves undefined (a read outside the opcode
\* buffer, a null frame, a pop of the empty call stack, a table index out of range)
Fault(m, kind) == [m EXCEPT !.ghost.fault = kind]
Crash(m, kind) == [m EXCEPT !.ghost.fault = kind, !.control.at = "crashed", !.ret = TRUE]

\* context_reset follows lx->next of the frame of every call record it pops
RECURSIVE UnwindSafe(_)
UnwindSafe(c) ==
    IF Len(c.call_stk) = 0 THEN TRUE
    ELSE /\ FrameLive(c, c.lex_index)
         /\ UnwindSafe([PopFrame(c) EXCEPT !.call_stk = SubSeq(@, 1, Len(@) - 1),
                                           !.lex_index = c.call_stk[Len(c.call_stk)].lex_index])

\* the host's then-handler of a run (run_setresult): it records the result
host_then(m, result, user) ==
    [m EXCEPT !.host.last = result.n, !.host.nres = @ + 1]

RECURSIVE wait_fire(_, _)

\* RUNDONE(res): settle the context, give the run's wait its result, return
RUNDONE(m, res) ==
    LET w == m.control.wrun
        final == res \in {SINK_RUN_PASS, SINK_RUN_FAIL}
        c0 == IF final THEN context_reset(m.ctx, Len(prg.ops)) ELSE m.ctx
        c1 == IF final /\ ~prg.repl
              THEN [c0 EXCEPT !.passed = (res = SINK_RUN_PASS),
                              !.failed = (res = SINK_RUN_FAIL)]
              ELSE c0
        m1 == [m EXCEPT !.ctx = c1,
                        !.waits[w].has_result = TRUE,
                        !.waits[w].result = sink_num(res),
                        !.control.at = "host",
                        !.ghost.lastres = res,
                        !.ghost.calls = IF final THEN <<>> ELSE @,
                        !.ghost.timedout = @ \/ res = SINK_RUN_TIMEOUT,
                        !.ghost.first[w] = IF @ = "none" THEN "result" ELSE @,
                        !.ret = TRUE]
    IN  IF final /\ ~UnwindSafe(m.ctx) THEN Crash(m, "frame")
        ELSE IF m.waits[w].has_then THEN wait_fire(m1, w)
        ELSE m1

\* the end of the dispatch loop: the loop test, and what follows the loop
LoopTop(m) ==
    IF m.ctx.pc < Len(prg.ops) THEN m
    ELSE IF prg.repl THEN RUNDONE(m, SINK_RUN_REPLMORE)
    ELSE RUNDONE([m EXCEPT !.ctx = opi_exit(@)], SINK_RUN_PASS)

\* context_run_w without the tests of passed and failed at its entry
context_run_w_noterminal(m, w) ==
    LET m0 == [m EXCEPT !.control.wrun = w, !.control.at = "vm", !.ret = FALSE,
                        !.ghost.opcount = 0, !.ghost.runT = m.ctx.timeout,
                        !.ghost.refund = FALSE]
    IN  IF m.ctx.async THEN RUNDONE(m0, SINK_RUN_ASYNC)
        ELSE IF m.ctx.timeout > 0 /\ m.ctx.timeout_left <= 0
             THEN RUNDONE([m0 EXCEPT !.ctx.timeout_left = m.ctx.timeout], SINK_RUN_TIMEOUT)
        ELSE LoopTop(m0)

\* context_run_w without the test of async at its entry
C27_RunIgnoresAsync(m, w) ==
    LET m0 == [m EXCEPT !.control.wrun = w, !.control.at = "vm", !.ret = FALSE,
                        !.ghost.opcount = 0, !.ghost.runT = m.ctx.timeout,
                        !.ghost.refund = FALSE]
    IN  IF m.ctx.passed THEN RUNDONE(m0, SINK_RUN_PASS)
        ELSE IF m.ctx.failed THEN RUNDONE(m0, SINK_RUN_FAIL)
        ELSE IF m.ctx.timeout > 0 /\ m.ctx.timeout_left <= 0
             THEN RUNDONE([m0 EXCEPT !.ctx.timeout_left = m.ctx.timeout], SINK_RUN_TIMEOUT)
        ELSE LoopTop(m0)

\* context_run_w up to its dispatch loop, for the run whose wait is w
context_run_w(m, w) ==
    LET m0 == [m EXCEPT !.control.wrun = w, !.control.at = "vm", !.ret = FALSE,
                        !.ghost.opcount = 0, !.ghost.runT = m.ctx.timeout,
                        !.ghost.refund = FALSE]
    IN  IF m.ctx.passed THEN RUNDONE(m0, SINK_RUN_PASS)
        ELSE IF m.ctx.failed THEN RUNDONE(m0, SINK_RUN_FAIL)
        ELSE IF m.ctx.async THEN RUNDONE(m0, SINK_RUN_ASYNC)
        ELSE IF m.ctx.timeout > 0 /\ m.ctx.timeout_left <= 0
             THEN RUNDONE([m0 EXCEPT !.ctx.timeout_left = m.ctx.timeout], SINK_RUN_TIMEOUT)
        ELSE LoopTop(m0)

\* context_run_then writing the result one register further than recorded
context_run_then_slot(m, result, w) ==
    IF ~FrameLive(m.ctx, m.ctx.async_frame) THEN Crash(m, "frame")
    ELSE context_run_w(
            [m EXCEPT !.ctx = [var_set(@, m.ctx.async_frame, m.ctx.async_index + 1, result)
                                  EXCEPT !.async = FALSE],
                      !.ghost.resumed = TRUE], w)

\* context_run_then: the continuation the VM attaches to a pending wait
context_run_then(m, result, w) ==
    IF ~FrameLive(m.ctx, m.ctx.async_frame) THEN Crash(m, "frame")
    ELSE context_run_w(
            [m EXCEPT !.ctx = [var_set(@, m.ctx.async_frame, m.ctx.async_index, result)
                                  EXCEPT !.async = FALSE],
                      !.ghost.resumed = TRUE], w)

\* wait_fire: invoke the handler, then unpin the result and release the wait
wait_fire(m, w) ==
    LET then == m.waits[w].then
        result == m.waits[w].result
        m0 == [m EXCEPT !.ghost.fired[w] = @ + 1]
    IN  IF then.f_then = "context_run_then"
        THEN LET m1 == context_run_then(m0, result, then.user)
             IN  IF m1.control.at = "host" THEN wait_fire_tail(m1, w)
                 ELSE [m1 EXCEPT !.control.fire = Append(@, w)]
        ELSE IF then.f_then = "host_then"
        THEN wait_fire_tail(host_then(m0, result, then.user), w)
        ELSE wait_fire_tail(m, w)

\* sink_then without the call of wait_fire for a result that is already there
sink_then_nofire(m, w, then) ==
    [m EXCEPT !.waits[w].has_then = TRUE, !.waits[w].then = then,
              !.ghost.first[w] = IF @ = "none" THEN "then" ELSE @]

\* sink_then and sink_result: the two transitions of a wait
sink_then(m, w, then) ==
    LET m1 == [m EXCEPT !.waits[w].has_then = TRUE, !.waits[w].then = then,
                        !.ghost.first[w] = IF @ = "none" THEN "then" ELSE @]
    IN  IF m.waits[w].has_result THEN wait_fire(m1, w) ELSE m1

sink_result(m, w, result) ==
    LET m1 == [m EXCEPT !.waits[w].has_result = TRUE, !.waits[w].result = result,
                        !.ctx = context_gcpin(@, result),
                        !.ghost.first[w] = IF @ = "none" THEN "result" ELSE @]
    IN  IF m.waits[w].has_then THEN wait_fire(m1, w) ELSE m1

\* the return of context_run_w to the host through the wait_fire calls above it
RECURSIVE FireTails(_)
FireTails(m) ==
    IF Len(m.control.fire) = 0 THEN m
    ELSE LET w == m.control.fire[Len(m.control.fire)]
         IN  FireTails(wait_fire_tail(
                [m EXCEPT !.control.fire = SubSeq(@, 1, Len(@) - 1)], w))

ReturnToHost(m) ==
    IF m.control.at = "crashed" THEN m
    ELSE [FireTails(m) EXCEPT !.control.at = "host", !.control.wrun = 0]

\* a register write, which is undefined when the frame is not there
SetReg(m, frame, index, val) ==
    IF m.ret THEN m
    ELSE IF ~FrameLive(m.ctx, frame) THEN Crash(m, "frame")
    ELSE [m EXCEPT !.ctx = var_set(@, frame, index, val)]

\* GOTWAIT(gw): take the wait a host call returned (0: NULL) for target (A, B)
GOTWAIT(m, gw, A, B) ==
    IF m.ctx.failed THEN RUNDONE(m, SINK_RUN_FAIL)
    ELSE IF gw = 0 THEN SetReg(m, A, B, SINK_NIL)
    ELSE IF m.waits[gw].has_result
         THEN LET m1 == SetReg(m, A, B, m.waits[gw].result)
              IN  IF m1.ret THEN m1 ELSE wait_release(m1, gw)
    ELSE [sink_then([m EXCEPT !.ctx.async = TRUE,
                              !.ctx.async_frame = A,
                              !.ctx.async_index = B,
                              !.ctx.timeout_left = m.ctx.timeout,
                              !.ghost.suspend = [pc |-> m.ctx.pc, frame |-> A, index |-> B],
                              !.ghost.resumed = FALSE],
                    gw, [f_then |-> "context_run_then", user |-> m.control.wrun])
            EXCEPT !.ret = TRUE, !.control.at = "host"]

-----------------------------------------------------------------------------
(* The host's callbacks as the VM sees them                                 *)

\* what a native command may do before it returns.  The command of key 0 does
\* input and output: it returns NULL, a wait that sink_done filled or a pending
\* sink_waiter, or it ends the script with sink_abortstr.  The
\* commands of the other keys account for their cost: they return NULL, after
\* sink_ctx_consumeticks with a negative amount or sink_ctx_forcetimeout
NativeChoices(idx) ==
    IF idx = 0 THEN {"null", "done", "pending", "abort"}
    ELSE {"null", "refund", "force"}
IoChoices == {"null", "done", "pending"}
DoneVals == {sink_num(7), StrVal(0)}

\* the most results the host's callbacks leave pinned at one time
MaxPinned == 2

\* the state after the callback has run and, in gw, the wait it returned
HostCall(m, e) ==
    CASE e.k = "done" ->
            [sink_done(m, e.v) EXCEPT !.gw = NextWait(m)]
      [] e.k = "pending" ->
            [sink_waiter(m) EXCEPT !.gw = NextWait(m),
                                   !.host.handles = @ \cup {NextWait(m)}]
      [] e.k = "abort" -> [m EXCEPT !.ctx = opi_abort(@, "native"), !.gw = 0]
      [] e.k = "refund" ->
            [m EXCEPT !.ctx = sink_ctx_consumeticks(@, -m.ctx.timeout, e.ub), !.gw = 0,
                      !.ghost.refund = TRUE]
      [] e.k = "force" -> [m EXCEPT !.ctx = sink_ctx_forcetimeout(@), !.gw = 0]
      [] OTHER -> [m EXCEPT !.gw = 0]

\* opi_say with the host's f_say: the text goes out, the callback's wait comes back
opi_say(m, args, e) ==
    HostCall([m EXCEPT !.host.out = Append(@, args)], e)

-----------------------------------------------------------------------------
(* The dispatch loop of context_run_w, one opcode at a time                 *)

InBuf(ops, i, n) == i >= 0 /\ i + n <= Len(ops)

\* the bytes the loop may find when it reads past the buffer
OobBytes == {0, 1, 255}
Rd(ops, i, b) == IF InBuf(ops, i, 1) THEN ByteAt(ops, i) ELSE b

\* the argument registers of a command: n (frame, index) pairs from base
ArgsLive(c, ops, base, n) ==
    \A k \in 0..(n - 1) : FrameLive(c, ByteAt(ops, base + 2 * k))
Args(c, ops, base, n) ==
    [k \in 1..n |-> var_get(c, ByteAt(ops, base + 2 * (k - 1)),
                               ByteAt(ops, base + 2 * (k - 1) + 1))]

\* the arguments as the cmdhead's rest byte arranges them
RestArgs(p, rest) ==
    IF rest = 255 THEN p
    ELSE IF Len(p) <= rest
         THEN p \o [k \in 1..(rest - Len(p)) |-> SINK_NIL] \o <<ListVal(<<>>)>>
    ELSE SubSeq(p, 1, rest) \o <<ListVal(SubSeq(p, rest + 1, Len(p)))>>

\* list_ptr_push(lex_stk, NULL) while lex_index >= lex_stk->size
GrowLex(stk, idx) ==
    IF idx < Len(stk) THEN stk
    ELSE stk \o [k \in 1..(idx + 1 - Len(stk)) |-> <<>>]

\* the number of bytes the handler of the opcode at pc reads before any jump
OpWidth(ops, pc) ==
    LET op == ByteAt(ops, pc)
        cnt(k) == IF InBuf(ops, pc + k, 1) THEN 2 * ByteAt(ops, pc + k) ELSE 0
    IN  CASE op \in {OP_NOP, OP_CMDTAIL} -> 1
          [] op \in {OP_INC, OP_NIL, OP_RETURN, OP_GC_RUN} -> 3
          [] op = OP_NUMP8 -> 4
          [] op \in {OP_MOVE, OP_JUMP} -> 5
          [] op \in {OP_STR, OP_JUMPTRUE, OP_JUMPFALSE, OP_ISNATIVE} -> 7
          [] op \in {OP_CALL, OP_NATIVE} -> 8 + cnt(7)
          [] op = OP_RETURNTAIL -> 6 + cnt(5)
          [] op \in {OP_SAY, OP_EXIT, OP_ABORT} -> 4 + cnt(3)
          [] OTHER -> 1

\* the opcodes whose handlers are written out below
VmOps == {OP_NOP, OP_MOVE, OP_INC, OP_NIL, OP_NUMP8, OP_STR, OP_JUMP, OP_JUMPTRUE,
          OP_JUMPFALSE, OP_CMDTAIL, OP_CALL, OP_ISNATIVE, OP_NATIVE, OP_RETURN,
          OP_RETURNTAIL, OP_SAY, OP_EXIT, OP_ABORT, OP_GC_RUN}

\* the bytes the switch has no case for: invalid opcodes, and OP_CMDHEAD
NoCase(op) == op_paramcat(op) \in {"INVALID", "CMDHEAD"}

\* the native command at index C of the key table, 0 when there is none
NativeAt(c, C) ==
    IF prg.repl
    THEN IF \E i \in 1..Len(c.natives) : c.natives[i].hash = C + 1
         THEN CHOOSE i \in 1..Len(c.natives) :
                c.natives[i].hash = C + 1 /\ \A j \in 1..(i - 1) : c.natives[j].hash # C + 1
         ELSE 0
    ELSE C + 1

\* whether reading entry C of the table the opcode indexes stays inside it
NativeIndexOk(c, C) ==
    IF prg.repl THEN C >= 0 /\ C < prg.keys ELSE C >= 0 /\ C < Len(c.natives)

\* the number of frames of each chain of lex_stk
ChainLens(stk) == [l \in 1..Len(stk) |-> Len(stk[l])]

\* a return that pops the call record and leaves the frame of the callee
C18_ReturnKeepsFrame(m, X, checked) ==
    LET c == m.ctx
        s == c.call_stk[Len(c.call_stk)]
        c1 == [c EXCEPT !.call_stk = SubSeq(@, 1, Len(@) - 1),
                        !.lex_index = s.lex_index,
                        !.pc = s.pc]
    IN  IF Len(c.call_stk) = 0
        THEN IF checked THEN RUNDONE([m EXCEPT !.ctx = opi_exit(@)], SINK_RUN_PASS)
             ELSE Crash(m, "callstk")
        ELSE [m EXCEPT !.ctx = var_set(c1, s.frame, s.index, X),
                       !.ghost.calls = SubSeq(@, 1, Len(@) - 1)]

\* a tail-return that enters the target in a frame of its own
C19_TailPushesFrame(m, e) ==
    LET ops == prg.ops
        c == m.ctx
        A == LE32(ops, c.pc + 1)
        p == Args(c, ops, c.pc + 6, ByteAt(ops, c.pc + 5))
    IN  [m EXCEPT !.ctx.pc = A + 3,
                  !.ctx.lex_stk[c.lex_index + 1] = <<lxs_get(p)>> \o @,
                  !.ghost.entered = A]

\* OP_CALL: push the call record, read the cmdhead at the target, enter the frame
op_call(m, e) ==
    LET ops == prg.ops
        c == m.ctx
        pc == c.pc
        A == ByteAt(ops, pc + 1)
        B == ByteAt(ops, pc + 2)
        C == LE32(ops, pc + 3)
        G == ByteAt(ops, pc + 7)
        p == Args(c, ops, pc + 8, G)
        s == [pc |-> pc + 8 + 2 * G, frame |-> A, index |-> B, lex_index |-> c.lex_index]
        level == Rd(ops, C + 1, e.b1)
        rest == Rd(ops, C + 2, e.b2)
        stk == GrowLex(c.lex_stk, level)
        m1 == [m EXCEPT !.ctx.call_stk = Append(@, s),
                        !.ctx.pc = C + 3,
                        !.ctx.lex_index = level,
                        !.ctx.lex_stk = [stk EXCEPT ![level + 1] =
                                            <<lxs_get(RestArgs(p, rest))>> \o @],
                        !.ghost.entered = C,
                        !.ghost.calls = Append(@, [depth |-> Len(c.call_stk),
                                                   lex_index |-> c.lex_index,
                                                   shape |-> ChainLens(c.lex_stk),
                                                   pc |-> s.pc, frame |-> A, index |-> B,
                                                   tails |-> 0])]
    IN  IF C = -1 THEN RUNDONE(m, SINK_RUN_REPLMORE)
        ELSE IF ~ArgsLive(c, ops, pc + 8, G) THEN Crash(m, "frame")
        ELSE IF InBuf(ops, C, 3) THEN m1
        ELSE IF e.k = "crash" THEN Crash([m EXCEPT !.ghost.entered = C], "oob")
        ELSE Fault(m1, "oob")

\* OP_RETURNTAIL: read the cmdhead at the target, replace the current frame
op_returntail(m, e) ==
    LET ops == prg.ops
        c == m.ctx
        pc == c.pc
        A == LE32(ops, pc + 1)
        E == ByteAt(ops, pc + 5)
        p == Args(c, ops, pc + 6, E)
        rest == Rd(ops, A + 2, e.b2)
        m1 == [m EXCEPT !.ctx.pc = A + 3,
                        !.ctx.lex_stk[c.lex_index + 1] =
                            <<lxs_get(RestArgs(p, rest))>> \o SubSeq(@, 2, Len(@)),
                        !.ghost.entered = A,
                        !.ghost.calls = IF Len(@) = 0 THEN @
                                        ELSE [@ EXCEPT ![Len(@)].tails = 1]]
    IN  IF A = -1 THEN RUNDONE(m, SINK_RUN_REPLMORE)
        ELSE IF ~ArgsLive(c, ops, pc + 6, E) THEN Crash(m, "frame")
        ELSE IF ~InBuf(ops, A, 3) /\ e.k = "crash"
             THEN Crash([m EXCEPT !.ghost.entered = A], "oob")
        ELSE IF ~FrameLive(c, c.lex_index) THEN Crash(m, "frame")
        ELSE IF InBuf(ops, A, 3) THEN m1
        ELSE Fault(m1, "oob")

\* OP_CMDTAIL and OP_RETURN: pop the call record and the frame, give the caller X
op_return(m, X, checked) ==
    LET c == m.ctx
        s == c.call_stk[Len(c.call_stk)]
        c1 == [PopFrame(c) EXCEPT !.call_stk = SubSeq(@, 1, Len(@) - 1),
                                  !.lex_index = s.lex_index,
                                  !.pc = s.pc]
    IN  IF Len(c.call_stk) = 0
        THEN IF checked THEN RUNDONE([m EXCEPT !.ctx = opi_exit(@)], SINK_RUN_PASS)
             ELSE Crash(m, "callstk")
        ELSE IF ~FrameLive(c, c.lex_index) THEN Crash(m, "frame")
        ELSE SetReg([m EXCEPT !.ctx = c1, !.ghost.calls = SubSeq(@, 1, Len(@) - 1)],
                    s.frame, s.index, X)

\* OP_NATIVE
op_native(m, e) ==
    LET ops == prg.ops
        c == m.ctx
        pc == c.pc
        A == ByteAt(ops, pc + 1)
        B == ByteAt(ops, pc + 2)
        C == LE32(ops, pc + 3)
        G == ByteAt(ops, pc + 7)
        nat == NativeAt(c, C)
        m1 == [m EXCEPT !.ctx.pc = pc + 8 + 2 * G]
    IN  IF ~ArgsLive(c, ops, pc + 8, G) THEN Crash(m, "frame")
        ELSE IF ~NativeIndexOk(c, C) THEN Crash(m, "index")
        ELSE IF nat = 0 \/ ~c.natives[nat].f_native
             THEN RUNDONE([m1 EXCEPT !.ctx = opi_abort(@, "Native call not implemented")],
                          SINK_RUN_FAIL)
        ELSE LET m2 == HostCall(m1, e) IN GOTWAIT(m2, m2.gw, A, B)

\* a conditional jump: taken when the register's truth equals want
op_jumpif(m, want) ==
    LET ops == prg.ops
        c == m.ctx
        pc == c.pc
        A == ByteAt(ops, pc + 1)
        B == ByteAt(ops, pc + 2)
        C == LE32(ops, pc + 3)
    IN  IF ~FrameLive(c, A) THEN Crash(m, "frame")
        ELSE IF (~sink_isnil(var_get(c, A, B))) = want
             THEN IF prg.repl /\ C = -1 THEN RUNDONE(m, SINK_RUN_REPLMORE)
                  ELSE [m EXCEPT !.ctx.pc = C]
        ELSE [m EXCEPT !.ctx.pc = pc + 7]

\* a string value whose index is outside the string table cannot be read
StrsOk(args) ==
    \A k \in 1..Len(args) : sink_isstr(args[k]) => args[k].n < prg.strs

\* OP_SAY, OP_EXIT and OP_ABORT: the commands that take a list of arguments
op_say(m, e) ==
    LET ops == prg.ops
        c == m.ctx
        pc == c.pc
        C == ByteAt(ops, pc + 3)
        p == Args(c, ops, pc + 4, C)
        m1 == [m EXCEPT !.ctx.pc = pc + 4 + 2 * C]
    IN  IF ~ArgsLive(c, ops, pc + 4, C) THEN Crash(m, "frame")
        ELSE IF ~StrsOk(p) THEN Crash(m, "index")
        ELSE LET m2 == opi_say(m1, p, e)
             IN  GOTWAIT(m2, m2.gw, ByteAt(ops, pc + 1), ByteAt(ops, pc + 2))

op_exit(m) ==
    LET ops == prg.ops
        c == m.ctx
        pc == c.pc
        C == ByteAt(ops, pc + 3)
        p == Args(c, ops, pc + 4, C)
        m1 == [m EXCEPT !.ctx.pc = pc + 4 + 2 * C]
        m2 == IF C > 0 THEN [m1 EXCEPT !.host.out = Append(@, p)] ELSE m1
    IN  IF ~ArgsLive(c, ops, pc + 4, C) THEN Crash(m, "frame")
        ELSE IF ~StrsOk(p) THEN Crash(m, "index")
        ELSE RUNDONE([m2 EXCEPT !.ctx = opi_exit(@)], SINK_RUN_PASS)

op_abort(m) ==
    LET ops == prg.ops
        c == m.ctx
        pc == c.pc
        C == ByteAt(ops, pc + 3)
        p == Args(c, ops, pc + 4, C)
        m1 == [m EXCEPT !.ctx.pc = pc + 4 + 2 * C]
    IN  IF ~ArgsLive(c, ops, pc + 4, C) THEN Crash(m, "frame")
        ELSE IF ~StrsOk(p) THEN Crash(m, "index")
        ELSE RUNDONE([m1 EXCEPT !.ctx = opi_abort(@, IF C > 0 THEN "abort" ELSE "NULL")],
                     SINK_RUN_FAIL)

\* the switch of the dispatch loop, for the opcode at ctx->pc
Exec(m, e) ==
    LET ops == prg.ops
        c == m.ctx
        pc == c.pc
        op == ByteAt(ops, pc)
        A == ByteAt(ops, pc + 1)
        B == ByteAt(ops, pc + 2)
        adv(n) == [m EXCEPT !.ctx.pc = pc + n]
    IN  IF ~InBuf(ops, pc, 1) THEN Crash(m, "oob")
        ELSE IF NoCase(op)
             THEN [m EXCEPT !.ghost.badop = @ \/ op_paramcat(op) = "INVALID",
                            !.ghost.headop = @ \/ op = OP_CMDHEAD]
        ELSE IF ~InBuf(ops, pc, OpWidth(ops, pc)) THEN Crash(m, "oob")
        ELSE CASE op = OP_NOP -> adv(1)
          [] op = OP_MOVE ->
                IF ~FrameLive(c, ByteAt(ops, pc + 3)) THEN Crash(m, "frame")
                ELSE SetReg(adv(5), A, B,
                            var_get(c, ByteAt(ops, pc + 3), ByteAt(ops, pc + 4)))
          [] op = OP_INC ->
                IF ~FrameLive(c, A) THEN Crash(m, "frame")
                ELSE IF ~sink_isnum(var_get(c, A, B))
                     THEN RUNDONE([adv(3) EXCEPT
                                    !.ctx = opi_abort(@, "Expecting number when incrementing")],
                                  SINK_RUN_FAIL)
                ELSE SetReg(adv(3), A, B, sink_num(var_get(c, A, B).n + 1))
          [] op = OP_NIL -> SetReg(adv(3), A, B, SINK_NIL)
          [] op = OP_NUMP8 -> SetReg(adv(4), A, B, sink_num(ByteAt(ops, pc + 3)))
          [] op = OP_STR ->
                LET C == LE32(ops, pc + 3)
                IN  IF prg.repl /\ ~(C >= 0 /\ C < prg.strs) THEN Crash(m, "index")
                    ELSE SetReg(adv(7), A, B, StrVal(C))
          [] op = OP_JUMP ->
                LET T == LE32(ops, pc + 1)
                IN  IF prg.repl /\ T = -1 THEN RUNDONE(m, SINK_RUN_REPLMORE)
                    ELSE [m EXCEPT !.ctx.pc = T]
          [] op = OP_JUMPTRUE -> op_jumpif(m, TRUE)
          [] op = OP_JUMPFALSE -> op_jumpif(m, FALSE)
          [] op = OP_CMDTAIL -> op_return(m, SINK_NIL, FALSE)
          [] op = OP_CALL -> op_call(m, e)
          [] op = OP_ISNATIVE ->
                LET C == LE32(ops, pc + 3)
                    nat == NativeAt(c, C)
                IN  IF ~NativeIndexOk(c, C) THEN Crash(m, "index")
                    ELSE SetReg(adv(7), A, B,
                                sink_bool(nat # 0 /\ c.natives[nat].f_native))
          [] op = OP_NATIVE -> op_native(m, e)
          [] op = OP_RETURN ->
                IF Len(c.call_stk) > 0 /\ ~FrameLive(c, A) THEN Crash(m, "frame")
                ELSE op_return(adv(3), IF Len(c.call_stk) > 0 THEN var_get(c, A, B)
                                        ELSE SINK_NIL, TRUE)
          [] op = OP_RETURNTAIL -> op_returntail(m, e)
          [] op = OP_SAY -> op_say(m, e)
          [] op = OP_EXIT -> op_exit(m)
          [] op = OP_ABORT -> op_abort(m)
          [] op = OP_GC_RUN -> SetReg([adv(3) EXCEPT !.ctx = context_gc(@)], A, B, SINK_NIL)

\* the end of a loop turn with no tick countdown
AfterOp_noticks(m) ==
    LET c == m.ctx
        c1 == IF c.gc_level # SINK_GC_NONE
              THEN IF c.gc_left - 1 <= 0 THEN context_gc([c EXCEPT !.gc_left = @ - 1])
                   ELSE [c EXCEPT !.gc_left = @ - 1]
              ELSE c
    IN  LoopTop([m EXCEPT !.ctx = c1])

\* the end of a loop turn that, on a timeout, leaves the pc on the opcode just run
AfterOp_replay(m) ==
    LET c == m.ctx
        c1 == IF c.gc_level # SINK_GC_NONE
              THEN IF c.gc_left - 1 <= 0 THEN context_gc([c EXCEPT !.gc_left = @ - 1])
                   ELSE [c EXCEPT !.gc_left = @ - 1]
              ELSE c
        c2 == IF c1.timeout > 0 THEN [c1 EXCEPT !.timeout_left = @ - 1] ELSE c1
        m2 == [m EXCEPT !.ctx = c2]
    IN  IF c2.timeout > 0 /\ c2.timeout_left <= 0
        THEN RUNDONE([m2 EXCEPT !.ctx.timeout_left = c2.timeout, !.ctx.pc = c2.lastpc],
                     SINK_RUN_TIMEOUT)
        ELSE LoopTop(m2)

\* what follows the switch: the collector's countdown, then the tick countdown
AfterOp(m) ==
    LET c == m.ctx
        c1 == IF c.gc_level # SINK_GC_NONE
              THEN IF c.gc_left - 1 <= 0 THEN context_gc([c EXCEPT !.gc_left = @ - 1])
                   ELSE [c EXCEPT !.gc_left = @ - 1]
              ELSE c
        c2 == IF c1.timeout > 0 THEN [c1 EXCEPT !.timeout_left = @ - 1] ELSE c1
        m2 == [m EXCEPT !.ctx = c2]
    IN  IF c2.timeout > 0 /\ c2.timeout_left <= 0
        THEN RUNDONE([m2 EXCEPT !.ctx.timeout_left = c2.timeout], SINK_RUN_TIMEOUT)
        ELSE LoopTop(m2)

\* one turn of the dispatch loop
LoopTurn(m, e) ==
    LET m0 == [m EXCEPT !.ctx.lastpc = m.ctx.pc,
                        !.ghost.opcount = @ + 1,
                        !.ghost.execd = @ + 1,
                        !.ghost.at = m.ctx.pc,
                        !.ret = FALSE]
        m1 == Exec(m0, e)
    IN  IF m1.ret THEN m1 ELSE AfterOp(m1)

-----------------------------------------------------------------------------
(* The machine: the context, its waits and the host around it               *)

Mach == [ctx |-> ctx, waits |-> waits, control |-> control, host |-> host,
         ghost |-> ghost, ret |-> FALSE, gw |-> 0]

Commit(m) ==
    /\ ctx' = m.ctx
    /\ waits' = m.waits
    /\ control' = m.control
    /\ host' = m.host
    /\ ghost' = m.ghost

\* control comes back to the host: the wait_fire calls above the run finish, and
\* the host attaches its handler to the wait sink_ctx_run returned (main.c)
Return(m) ==
    IF m.control.at # "host" THEN m
    ELSE LET m1 == FireTails(m)
             w == m1.control.run
             m2 == [m1 EXCEPT !.control.run = 0, !.control.wrun = 0]
         IN  IF w = 0 THEN m2
             ELSE sink_then(m2, w, [f_then |-> "host_then", user |-> 0])

\* the choices the environment has at the opcode the context is about to run
DefaultEnv == [k |-> "null", v |-> SINK_NIL, b1 |-> 0, b2 |-> 0, ub |-> "none"]

StepEnv(m) ==
    LET ops == prg.ops
        pc == m.ctx.pc
        op == IF InBuf(ops, pc, 1) THEN ByteAt(ops, pc) ELSE OP_NOP
        full == InBuf(ops, pc, OpWidth(ops, pc))
        free == CanGetWait(m)
        tgt == IF op = OP_CALL THEN LE32(ops, pc + 3) ELSE LE32(ops, pc + 1)
    IN  IF ~full THEN {DefaultEnv}
        ELSE IF op = OP_NATIVE
        THEN UNION {{[DefaultEnv EXCEPT !.k = k, !.ub = u] :
                        u \in IF k = "refund"
                              THEN ConsumeOutcomes(m.ctx, -m.ctx.timeout) ELSE {"none"}} :
                    k \in {x \in NativeChoices(LE32(ops, pc + 3)) \ {"done"} :
                                x = "pending" => free}}
             \cup {[DefaultEnv EXCEPT !.k = "done", !.v = v] :
                        v \in {x \in DoneVals :
                                /\ free /\ LE32(ops, pc + 3) = 0
                                /\ sink_isstr(x) => Len(m.ctx.pinned) < MaxPinned}}
        ELSE IF op = OP_SAY
        THEN {[DefaultEnv EXCEPT !.k = k] :
                    k \in {x \in IoChoices : x \in {"done", "pending"} => free}}
        ELSE IF op \in {OP_CALL, OP_RETURNTAIL} /\ ~InBuf(ops, tgt, 3)
        THEN {[DefaultEnv EXCEPT !.k = "crash"]}
             \cup {[k |-> "read", v |-> SINK_NIL, b1 |-> x, b2 |-> y, ub |-> "none"] :
                        x \in OobBytes, y \in OobBytes}
        ELSE {DefaultEnv}

\* the opcodes this model has a handler for, or that the switch has no case for
Modelled(m) ==
    ~InBuf(prg.ops, m.ctx.pc, 1)
        \/ ByteAt(prg.ops, m.ctx.pc) \in VmOps
        \/ NoCase(ByteAt(prg.ops, m.ctx.pc))

\* sink_ctx_run followed by the host's sink_then on the wait it returns
HostRun(maxruns) ==
    /\ control.at = "host"
    /\ host.loaded
    /\ host.runs < maxruns
    /\ CanGetWait(Mach)
    /\ LET w == NextWait(Mach)
           c0 == IF prg.repl THEN [ctx EXCEPT !.err = "NULL"] ELSE ctx
           m1 == wait_get_make([Mach EXCEPT !.ctx = c0])
           m2 == [m1 EXCEPT !.control.run = w, !.host.runs = @ + 1,
                            !.ghost.entry = sink_ctx_getstatus(ctx)]
       IN  Commit(Return(context_run_w(m2, w)))
    /\ UNCHANGED <<prg, valid, scr>>

\* one opcode of a run in progress
Step(cap) ==
    /\ control.at = "vm"
    /\ ghost.execd < cap
    /\ Modelled(Mach)
    /\ \E e \in StepEnv(Mach) :
            Commit(Return(LoopTurn([Mach EXCEPT !.ghost.det = @ /\ e.k \in {"null", "refund", "force"}], e)))
    /\ UNCHANGED <<prg, valid, scr>>

\* the host fulfils a wait one of its callbacks handed to the VM
HostResult ==
    /\ control.at = "host"
    /\ \E w \in host.handles, v \in DoneVals :
            /\ ~waits[w].has_result
            /\ Commit(Return(sink_result([Mach EXCEPT !.host.handles = @ \ {w}], w, v)))
    /\ UNCHANGED <<prg, valid, scr>>

\* sink_ctx_settimeout, before the first run
Timeouts == {2, 5}
HostSetTimeout ==
    /\ control.at = "host"
    /\ host.loaded
    /\ host.runs = 0
    /\ ctx.timeout = 0
    /\ \E t \in Timeouts : ctx' = sink_ctx_settimeout(ctx, t)
    /\ UNCHANGED <<prg, valid, waits, control, host, ghost, scr>>

-----------------------------------------------------------------------------
(* Programs                                                                 *)

\* the encodings of the instructions, as the code generator lays them out
I_NOP == <<OP_NOP>>
I_MOVE(tf, ti, sf, si) == <<OP_MOVE, tf, ti, sf, si>>
I_INC(f, i) == <<OP_INC, f, i>>
I_NIL(f, i) == <<OP_NIL, f, i>>
I_NUMP8(f, i, n) == <<OP_NUMP8, f, i, n>>
I_STR(f, i, idx) == <<OP_STR, f, i, idx, 0, 0, 0>>
I_JUMP(t) == <<OP_JUMP, t, 0, 0, 0>>
I_JUMPTRUE(f, i, t) == <<OP_JUMPTRUE, f, i, t, 0, 0, 0>>
I_JUMPFALSE(f, i, t) == <<OP_JUMPFALSE, f, i, t, 0, 0, 0>>
I_CMDHEAD(level, rest) == <<OP_CMDHEAD, level, rest>>
I_CMDTAIL == <<OP_CMDTAIL>>
I_CALL(f, i, t, args) == <<OP_CALL, f, i, t, 0, 0, 0, Len(args) \div 2>> \o args
I_ISNATIVE(f, i, idx) == <<OP_ISNATIVE, f, i, idx, 0, 0, 0>>
I_NATIVE(f, i, idx, args) == <<OP_NATIVE, f, i, idx, 0, 0, 0, Len(args) \div 2>> \o args
I_RETURN(f, i) == <<OP_RETURN, f, i>>
I_RETURNTAIL(t, args) == <<OP_RETURNTAIL, t, 0, 0, 0, Len(args) \div 2>> \o args
I_SAY(f, i, args) == <<OP_SAY, f, i, Len(args) \div 2>> \o args
I_EXIT(f, i, args) == <<OP_EXIT, f, i, Len(args) \div 2>> \o args
I_ABORT(f, i, args) == <<OP_ABORT, f, i, Len(args) \div 2>> \o args
I_GC_RUN(f, i) == <<OP_GC_RUN, f, i>>

RECURSIVE Flat(_)
Flat(ss) == IF Len(ss) = 0 THEN <<>> ELSE ss[1] \o Flat(SubSeq(ss, 2, Len(ss)))

\* a command that returns its argument, called once, and its result said
PrgCall ==
    Flat(<< I_NUMP8(0, 1, 5), I_JUMP(16), I_CMDHEAD(1, 255), I_RETURN(1, 0), I_CMDTAIL,
            I_CALL(0, 0, 9, <<0, 1>>), I_SAY(0, 2, <<0, 0>>) >>)

\* a loop around a native command, which only the host can end
PrgNativeLoop ==
    Flat(<< I_NATIVE(0, 0, 1, <<>>), I_JUMP(0) >>)

\* straight-line code: count, say, load a string, say, exit
PrgSay ==
    Flat(<< I_NUMP8(0, 0, 1), I_INC(0, 0), I_SAY(0, 1, <<0, 0>>), I_STR(0, 2, 0),
            I_NATIVE(0, 3, 0, <<0, 2>>), I_SAY(0, 1, <<0, 3>>), I_EXIT(0, 1, <<>>) >>)

\* a native's result incremented: an abort when the result is not a number
PrgAbort ==
    Flat(<< I_NATIVE(0, 0, 0, <<>>), I_INC(0, 0), I_JUMPFALSE(0, 0, 24),
            I_ABORT(0, 1, <<0, 0>>), I_NOP >>)

\* a loop that runs twice, a collection inside it
PrgLoop ==
    Flat(<< I_JUMPTRUE(0, 1, 24), I_MOVE(0, 1, 0, 0), I_NUMP8(0, 0, 1), I_GC_RUN(0, 2),
            I_JUMP(0), I_ISNATIVE(0, 3, 0), I_NOP, I_NIL(0, 0), I_JUMPFALSE(0, 0, 42),
            I_SAY(0, 2, <<0, 3>>) >>)

\* a command that tail-returns into a second command
PrgTail ==
    Flat(<< I_JUMP(15), I_CMDHEAD(1, 255), I_RETURNTAIL(20, <<>>), I_CMDTAIL,
            I_JUMP(28), I_CMDHEAD(1, 0), I_NUMP8(1, 1, 9), I_CMDTAIL,
            I_CALL(0, 0, 5, <<>>), I_SAY(0, 1, <<0, 0>>) >>)

\* a command nested in a command, called from the top level: the inner body
\* reads a register of the frame of the outer command
PrgDeepCall ==
    Flat(<< I_JUMP(23), I_CMDHEAD(1, 255), I_JUMP(22), I_CMDHEAD(2, 255),
            I_MOVE(2, 0, 1, 0), I_CMDTAIL, I_CMDTAIL, I_CALL(0, 0, 13, <<>>) >>)

\* the same, the inner command called from the body of the outer one
PrgNestedCall ==
    Flat(<< I_JUMP(31), I_CMDHEAD(1, 255), I_JUMP(22), I_CMDHEAD(2, 255),
            I_MOVE(2, 0, 1, 0), I_CMDTAIL, I_CALL(1, 0, 13, <<>>), I_CMDTAIL,
            I_CALL(0, 0, 5, <<>>) >>)

\* a command that tail-returns into itself twice, then returns a number
PrgTailLoop ==
    Flat(<< I_JUMP(36), I_CMDHEAD(1, 255), I_JUMPFALSE(1, 0, 28), I_NIL(1, 2),
            I_RETURNTAIL(5, <<1, 1, 1, 2>>), I_NUMP8(1, 3, 9), I_RETURN(1, 3), I_CMDTAIL,
            I_NUMP8(0, 1, 5), I_CALL(0, 0, 5, <<0, 1, 0, 1>>), I_SAY(0, 2, <<0, 0>>) >>)

\* a command the top level jumps over, and then a jump into its body
PrgJumpIn ==
    Flat(<< I_JUMP(10), I_CMDHEAD(1, 255), I_NOP, I_CMDTAIL, I_JUMP(8) >>)

Program(ops) == [ops |-> ops, strs |-> 1, keys |-> 2, repl |-> FALSE]

Corpus == {Program(PrgCall), Program(PrgNativeLoop), Program(PrgSay),
           Program(PrgAbort), Program(PrgLoop), Program(PrgTail)}

-----------------------------------------------------------------------------
(* The context and its host, running a compiled program                     *)

\* the most opcodes a behaviour executes, and the most calls of sink_ctx_run
MaxOps == 110
MaxRuns == 5

\* sink_ctx_native for every key of the program's key table
RECURSIVE RegisterNatives(_, _)
RegisterNatives(c, n) ==
    IF n = 0 THEN c ELSE context_native(RegisterNatives(c, n - 1), n, 0)

ControlInit == [at |-> "host", wrun |-> 0, run |-> 0, fire |-> <<>>]
HostInit == [loaded |-> TRUE, runs |-> 0, last |-> -1, nres |-> 0, out |-> <<>>,
             handles |-> {}]
GhostInit ==
    [fired |-> [w \in WaitIds |-> 0], first |-> [w \in WaitIds |-> "none"],
     timedout |-> FALSE, opcount |-> 0, runT |-> 0, refund |-> FALSE,
     fault |-> "none", execd |-> 0, lastres |-> -1, resumed |-> FALSE,
     suspend |-> [pc |-> 0, frame |-> 0, index |-> 0], badop |-> FALSE, headop |-> FALSE,
     entered |-> -1, at |-> -1, det |-> TRUE, entry |-> "READY", calls |-> <<>>]
ScrNone == [mode |-> "none"]

Init ==
    /\ prg \in Corpus
    /\ valid = program_validate(prg)
    /\ ctx = RegisterNatives(context_new(prg), prg.keys)
    /\ waits = [w \in WaitIds |-> FreeWait]
    /\ control = ControlInit
    /\ host = HostInit
    /\ ghost = GhostInit
    /\ scr = ScrNone

Next ==
    \/ HostSetTimeout
    \/ HostRun(MaxRuns)
    \/ Step(MaxOps)
    \/ HostResult

Spec == Init /\ [][Next]_vars

-----------------------------------------------------------------------------
(* The same program run to its end with no timeout                          *)

RECURSIVE RunFree(_, _)
RunFree(m, fuel) ==
    IF m.control.at # "vm" \/ fuel = 0 THEN m
    ELSE RunFree(Return(LoopTurn(m, DefaultEnv)), fuel - 1)

Untimed ==
    LET m0 == [ctx |-> RegisterNatives(context_new(prg), prg.keys),
               waits |-> [w \in WaitIds |-> FreeWait],
               control |-> ControlInit, host |-> HostInit, ghost |-> GhostInit,
               ret |-> FALSE, gw |-> 0]
        w == NextWait(m0)
        m1 == [wait_get_make(m0) EXCEPT !.control.run = w, !.host.runs = 1]
    IN  RunFree(Return(context_run_w(m1, w)), MaxOps)

-----------------------------------------------------------------------------
(* Waits, suspension, the tick budget and the terminal states               *)

\* C1: the then-handler of every wait is invoked exactly once, and only when the
\* wait has both its result and its handler, whichever came first: the count of
\* invocations of a wait is 1 exactly when both are there, and 0 otherwise.
C1_ThenFiresExactlyOnce ==
    \A w \in WaitIds :
        /\ ghost.fired[w] \in {0, 1}
        /\ (ghost.fired[w] = 1) <=> (waits[w].has_then /\ waits[w].has_result)

\* both orders have happened: a wait whose handler came first and a wait whose
\* result came first have each fired
C1_Witness ==
    \E w, u \in WaitIds :
        /\ ghost.fired[w] = 1 /\ ghost.first[w] = "then"
        /\ ghost.fired[u] = 1 /\ ghost.first[u] = "result"

\* the instruction the context is suspended in, and the one that follows it
SuspendedAt == ghost.at
SuspendedNext == ghost.at + OpWidth(prg.ops, ghost.at)

\* C2: a pending wait from a host call suspends the context with the call's
\* target register recorded and the async flag set, and no opcode is dispatched
\* while it is set; the fulfilment of the wait writes the result into exactly
\* that register, clears the flag and resumes at the instruction after the call.
C2_SuspendResume ==
    /\ [](ctx.async =>
            /\ control.at = "host"
            /\ ByteAt(prg.ops, SuspendedAt) \in {OP_NATIVE, OP_SAY}
            /\ ctx.async_frame = ByteAt(prg.ops, SuspendedAt + 1)
            /\ ctx.async_index = ByteAt(prg.ops, SuspendedAt + 2)
            /\ ctx.pc = SuspendedNext)
    /\ [][(ctx.async /\ (host'.handles # host.handles \/ ~ctx'.async)) =>
            \E w \in host.handles :
                /\ host'.handles = host.handles \ {w}
                /\ waits'[w].has_result
                /\ ~ctx'.async
                /\ ctx'.lex_stk =
                        var_set(ctx, ctx.async_frame, ctx.async_index, waits'[w].result).lex_stk
                /\ ctx.pc < Len(prg.ops) => (control'.at = "vm" /\ ctx'.pc = ctx.pc)]_vars

\* a suspended call has been fulfilled and the run is dispatching again
C2_Witness ==
    /\ ghost.resumed
    /\ control.at = "vm"
    /\ ctx.pc = SuspendedNext
    /\ ~sink_isnil(var_get(ctx, ByteAt(prg.ops, SuspendedAt + 1),
                                ByteAt(prg.ops, SuspendedAt + 2)))

C4_TimeoutResumeEquivalence ==
    (control.at = "host" /\ ghost.timedout /\ ghost.det /\ (ctx.passed \/ ctx.failed)) =>
        /\ Untimed.control.at = "host"
        /\ ctx.lex_stk = Untimed.ctx.lex_stk
        /\ ctx.pinned = Untimed.ctx.pinned
        /\ ctx.passed = Untimed.ctx.passed
        /\ ctx.failed = Untimed.ctx.failed
        /\ host.out = Untimed.host.out
        /\ host.last = Untimed.host.last

\* a program that called a command and said its result has finished after two
\* or more runs that timed out
C4_Witness ==
    /\ control.at = "host"
    /\ ghost.timedout
    /\ ghost.det
    /\ ctx.passed
    /\ host.runs >= 3
    /\ Len(host.out) > 0

\* C5: a run entered in the PASSED or FAILED status executes no opcode, leaves
\* the status as it is and gives the host that same PASS or FAIL result.
C5_TerminalStatus ==
    [][(host'.runs = host.runs + 1 /\ sink_ctx_getstatus(ctx) \in {"PASSED", "FAILED"}) =>
            /\ ghost'.execd = ghost.execd
            /\ sink_ctx_getstatus(ctx') = sink_ctx_getstatus(ctx)
            /\ control'.at = "host"
            /\ host'.nres = host.nres + 1
            /\ host'.last = IF ctx.passed THEN SINK_RUN_PASS ELSE SINK_RUN_FAIL]_vars

\* a run has been made on a context that had passed, after the runs that got it there
C5_Witness ==
    /\ ghost.entry = "PASSED"
    /\ host.last = SINK_RUN_PASS
    /\ host.runs >= 3
    /\ ghost.execd > 0

-----------------------------------------------------------------------------
(* Validation, then the run of what it accepted                             *)

\* the most instructions of a generated program, the most opcodes a behaviour
\* executes and the most calls of sink_ctx_run on a validated program
MaxLen == 3
MaxOpsV == 12
MaxRunsV == 2

\* the instructions the generated programs are made of; 200 is a location past
\* the end of every program, 5, 8 and 13 are locations inside some of them
Alphabet ==
    {I_NOP, I_JUMP(5), I_JUMP(8), I_JUMP(13), I_JUMP(200), I_CMDHEAD(1, 255), I_CMDTAIL,
     I_CALL(0, 0, 5, <<>>), I_CALL(0, 0, 13, <<>>), I_CALL(0, 0, 200, <<>>),
     I_RETURN(0, 0), I_RETURNTAIL(200, <<>>), I_JUMPFALSE(0, 0, 200)}

ShortPrograms ==
    {Flat(ss) : ss \in UNION {[1..n -> Alphabet] : n \in 1..MaxLen}}

\* the bytes a corrupted program has in place of one of its own: opcodes the
\* dispatch loop below has handlers for, and 200, which is no opcode
MutBytes == {OP_NOP, OP_MOVE, OP_JUMP, OP_CMDHEAD, OP_CMDTAIL, OP_CALL, 200}

Mutations(ops) ==
    {[ops EXCEPT ![i] = b] : i \in 1..Len(ops), b \in MutBytes}

GenOps ==
    ShortPrograms \cup {p.ops : p \in Corpus} \cup UNION {Mutations(p.ops) : p \in Corpus}
        \cup {PrgDeepCall, PrgNestedCall, PrgJumpIn}

InitValidate ==
    /\ prg \in {Program(ops) : ops \in GenOps}
    /\ valid = program_validate(prg)
    /\ ctx = RegisterNatives(context_new(prg), prg.keys)
    /\ waits = [w \in WaitIds |-> FreeWait]
    /\ control = ControlInit
    /\ host = [HostInit EXCEPT !.loaded = valid]
    /\ ghost = GhostInit
    /\ scr = ScrNone

NextValidate ==
    \/ HostRun(MaxRunsV)
    \/ Step(MaxOpsV)
    \/ HostResult

SpecValidate == InitValidate /\ [][NextValidate]_vars

\* the length of the instruction at pc, by the category of its opcode
OpLen(ops, pc) ==
    LET cat == op_paramcat(ByteAt(ops, pc))
        cnt(k) == IF InBuf(ops, pc + k, 1) THEN 2 * ByteAt(ops, pc + k) ELSE 0
    IN  CASE cat \in {"EMPTY", "CMDTAIL", "INVALID"} -> 1
          [] cat \in {"V", "CMDHEAD"} -> 3
          [] cat = "VN" -> 4
          [] cat \in {"VV", "VNN", "JUMP"} -> 5
          [] cat \in {"VVV", "VNNNN", "STR", "ISNATIVE", "VJUMP"} -> 7
          [] cat = "VVVV" -> 9
          [] cat = "VNNNNNNNN" -> 11
          [] cat = "VA" -> 4 + cnt(3)
          [] cat = "RETURNTAIL" -> 6 + cnt(5)
          [] cat \in {"CALL", "NATIVE"} -> 8 + cnt(7)

\* the first bytes of the instructions of a program, read from location 0
RECURSIVE InstrStartsFrom(_, _)
InstrStartsFrom(ops, pc) ==
    IF pc >= Len(ops) THEN {}
    ELSE {pc} \cup InstrStartsFrom(ops, pc + OpLen(ops, pc))

InstrStarts(ops) == InstrStartsFrom(ops, 0)

\* the targets of the calls and tail-returns, and of the jumps, of a program
CallTargets(ops) ==
    {LE32(ops, pc + 3) : pc \in {q \in InstrStarts(ops) : ByteAt(ops, q) = OP_CALL}}
        \cup {LE32(ops, pc + 1) :
                pc \in {q \in InstrStarts(ops) : ByteAt(ops, q) = OP_RETURNTAIL}}

JumpTargets(ops) ==
    {LE32(ops, pc + 1) : pc \in {q \in InstrStarts(ops) : ByteAt(ops, q) = OP_JUMP}}
        \cup {LE32(ops, pc + 3) :
                pc \in {q \in InstrStarts(ops) :
                            ByteAt(ops, q) \in {OP_JUMPTRUE, OP_JUMPFALSE}}}

\* the number of cmdheads open after the instructions before pc, -1 once a
\* cmdtail has come with none open
RECURSIVE OpenHeads(_, _, _)
OpenHeads(ops, pc, depth) ==
    IF pc >= Len(ops) THEN depth
    ELSE IF ByteAt(ops, pc) = OP_CMDHEAD THEN OpenHeads(ops, pc + OpLen(ops, pc), depth + 1)
    ELSE IF ByteAt(ops, pc) = OP_CMDTAIL
         THEN IF depth = 0 THEN -1 ELSE OpenHeads(ops, pc + 1, depth - 1)
    ELSE OpenHeads(ops, pc + OpLen(ops, pc), depth)

\* C6: the run of a program that passed validation never reads outside the opcode
\* buffer, never dispatches on an invalid opcode byte and never indexes the string
\* table or the native table out of range.
C6_ValidatedRunIsSafe ==
    valid => (ghost.fault \notin {"oob", "index"} /\ ~ghost.badop)

\* C8: in a program that passed validation, every call and tail-return targets
\* the first byte of a cmdhead instruction.
C8_CallTargetsAreCmdHeads ==
    valid => \A t \in CallTargets(prg.ops) :
                t \in InstrStarts(prg.ops) /\ ByteAt(prg.ops, t) = OP_CMDHEAD

\* C9: in a program that passed validation, every jump targets the first byte of
\* an instruction or the end of the buffer.
C9_JumpTargetsOnBoundaries ==
    valid => \A t \in JumpTargets(prg.ops) :
                t \in InstrStarts(prg.ops) \cup {Len(prg.ops)}

\* C10: a program passes validation only if no cmdtail comes without an open
\* cmdhead and no cmdhead is still open at the end of the buffer.
C10_HeadsAndTailsMatched ==
    valid => OpenHeads(prg.ops, 0, 0) = 0

\* the call instructions of a program, each with the number of cmdheads open
\* where it stands
RECURSIVE CallSites(_, _, _)
CallSites(ops, pc, level) ==
    IF pc >= Len(ops) THEN {}
    ELSE LET op == ByteAt(ops, pc)
             next == pc + OpLen(ops, pc)
         IN  IF op = OP_CMDHEAD THEN CallSites(ops, next, level + 1)
             ELSE IF op = OP_CMDTAIL
             THEN IF level = 0 THEN {} ELSE CallSites(ops, next, level - 1)
             ELSE IF op = OP_CALL /\ InBuf(ops, pc, 7)
             THEN {[pc |-> pc, level |-> level, target |-> LE32(ops, pc + 3)]}
                    \cup CallSites(ops, next, level)
             ELSE CallSites(ops, next, level)

\* C11: a program passes validation only if the level byte of the cmdhead every
\* call targets is a level the call site can enter: the frames below the level
\* of the callee are frames of the caller, so the level is at most one more than
\* the level of the code the call stands in.
C11_CallLevelMatches ==
    valid => \A c \in CallSites(prg.ops, 0, 0) :
                (InBuf(prg.ops, c.target, 2) /\ ByteAt(prg.ops, c.target) = OP_CMDHEAD)
                    => ByteAt(prg.ops, c.target + 1) <= c.level + 1

-----------------------------------------------------------------------------
(* Loading a precompiled program                                            *)

\* the sizes of the records of a binary file, its first word and its last byte
BSZ_HEADER == 28
BSZ_STR_HEAD == 4
BSZ_KEY == 8
BSZ_DEBUG_HEAD == 4
BSZ_POS == 16
BSZ_CMD == 8
BinMagic == 23811068
BinFirst == 252
BinLast == 253

\* GETINT: a little-endian word of the buffer (the files below keep it under 2^31)
GETINT(buf, i) == buf[i + 1] + 256 * buf[i + 2] + 65536 * buf[i + 3] + 16777216 * buf[i + 4]

binstate_new ==
    [state |-> "BIS_HEADER", left |-> 0, item |-> 0, buf |-> <<>>,
     str_size |-> 0, key_size |-> 0, dbg_size |-> 0, pos_size |-> 0, cmd_size |-> 0,
     ops_size |-> 0]

\* sink_scr_new: the script object; feed, input, done and nwrites are the host's
\* side of it: how it feeds the file, what is left to feed, whether the input
\* has ended, and the writes made
sink_scr_new(feed, input) ==
    [mode |-> "SCM_UNKNOWN", err |-> "NULL", file |-> FALSE, binstate |-> binstate_new,
     feed |-> feed, input |-> input, given |-> input, done |-> FALSE, nwrites |-> 0]

\* program_new: no code, empty tables
program_new(repl) ==
    [ops |-> <<>>, strs |-> 0, keys |-> 0, repl |-> repl,
     strTable |-> <<>>, keyTable |-> <<>>, debugTable |-> <<>>, posTable |-> <<>>,
     cmdTable |-> <<>>]

\* WRITE: move bytes to the buffer, at most the bytes the record still lacks
WRITE(s) ==
    LET left == s.sc.binstate.left
        n == IF Len(s.bytes) > left THEN left ELSE Len(s.bytes)
    IN  [s EXCEPT !.sc.binstate.buf = @ \o SubSeq(s.bytes, 1, n),
                  !.sc.binstate.left = @ - n,
                  !.bytes = SubSeq(s.bytes, n + 1, Len(s.bytes))]

\* a table of fixed-size records (keys, positions, commands): one record read,
\* or the move to the next table when all have been
bin_table(s, size, recsize, nextstate, nextleft, keep) ==
    IF s.sc.binstate.item >= size
    THEN [s EXCEPT !.sc.binstate.state = nextstate, !.sc.binstate.left = nextleft,
                   !.sc.binstate.item = IF keep THEN @ ELSE 0]
    ELSE LET s1 == WRITE(s)
         IN  IF s1.sc.binstate.left # 0 THEN s1
             ELSE LET buf == s1.sc.binstate.buf
                      st == s.sc.binstate.state
                      \* silently validate basefile and cmdhint
                      hint(i) == IF GETINT(buf, i) >= s.sc.binstate.dbg_size THEN -1
                                 ELSE GETINT(buf, i)
                  IN  [s1 EXCEPT
                         !.sc.binstate.buf = <<>>, !.sc.binstate.left = recsize,
                         !.sc.binstate.item = @ + 1,
                         !.p.keys = IF st = "BIS_KEY" THEN @ + 1 ELSE @,
                         !.p.keyTable = IF st = "BIS_KEY" THEN Append(@, buf) ELSE @,
                         !.p.posTable =
                            IF st = "BIS_POS"
                            THEN Append(@, [pc |-> GETINT(buf, 0), line |-> GETINT(buf, 4),
                                            chr |-> GETINT(buf, 8), basefile |-> hint(12)])
                            ELSE @,
                         !.p.cmdTable =
                            IF st = "BIS_CMD"
                            THEN Append(@, [pc |-> GETINT(buf, 0), cmdhint |-> hint(4)])
                            ELSE @]

\* the head of a string or of a debug string: its length, or the next table
bin_head(s, size, bodystate, nextstate, nextleft) ==
    IF s.sc.binstate.item >= size
    THEN [s EXCEPT !.sc.binstate.state = nextstate, !.sc.binstate.left = nextleft,
                   !.sc.binstate.item = 0]
    ELSE LET s1 == WRITE(s)
         IN  IF s1.sc.binstate.left # 0 THEN s1
             ELSE [s1 EXCEPT !.sc.binstate.state = bodystate,
                             !.sc.binstate.left = GETINT(s1.sc.binstate.buf, 0),
                             !.sc.binstate.buf = <<>>]

\* the body of a string or of a debug string, pushed to its table when whole
bin_body(s, headstate, headleft) ==
    LET s1 == WRITE(s)
    IN  IF s1.sc.binstate.left # 0 THEN s1
        ELSE [s1 EXCEPT !.sc.binstate.state = headstate, !.sc.binstate.left = headleft,
                        !.sc.binstate.buf = <<>>, !.sc.binstate.item = @ + 1,
                        !.p.strs = IF headstate = "BIS_STR_HEAD" THEN @ + 1 ELSE @,
                        !.p.strTable =
                            IF headstate = "BIS_STR_HEAD" THEN Append(@, s1.sc.binstate.buf)
                            ELSE @,
                        !.p.debugTable =
                            IF headstate = "BIS_STR_HEAD" THEN @
                            ELSE Append(@, s1.sc.binstate.buf)]

\* one turn of the loop of sink_scr_write over the state of the reader
\* a reader that takes any byte for the terminating byte
C17_AnyTerminator(buf) == TRUE

\* BIS_OPS: the byte read after the ops_size opcode bytes is the terminating byte
TerminatorOk(buf) == buf[Len(buf)] = BinLast

bin_switch(s) ==
    LET bs == s.sc.binstate
    IN  CASE bs.state = "BIS_HEADER" ->
            LET s1 == WRITE(s)
                b == s1.sc.binstate
                b1 == [b EXCEPT !.str_size = GETINT(b.buf, 4), !.key_size = GETINT(b.buf, 8),
                                !.dbg_size = GETINT(b.buf, 12), !.pos_size = GETINT(b.buf, 16),
                                !.cmd_size = GETINT(b.buf, 20), !.ops_size = GETINT(b.buf, 24)]
            IN  IF b.left # 0 THEN s1
                ELSE IF GETINT(b.buf, 0) # BinMagic
                THEN [s1 EXCEPT !.sc.binstate = b1,
                                !.sc.err = "Error: Invalid binary header", !.res = FALSE]
                ELSE [s1 EXCEPT !.sc.binstate =
                            [b1 EXCEPT !.state = "BIS_STR_HEAD", !.left = BSZ_STR_HEAD,
                                       !.item = 0, !.buf = <<>>]]
          [] bs.state = "BIS_STR_HEAD" ->
            bin_head(s, bs.str_size, "BIS_STR_BODY", "BIS_KEY", BSZ_KEY)
          [] bs.state = "BIS_STR_BODY" -> bin_body(s, "BIS_STR_HEAD", BSZ_STR_HEAD)
          [] bs.state = "BIS_KEY" ->
            bin_table(s, bs.key_size, BSZ_KEY, "BIS_DEBUG_HEAD", BSZ_DEBUG_HEAD, FALSE)
          [] bs.state = "BIS_DEBUG_HEAD" ->
            bin_head(s, bs.dbg_size, "BIS_DEBUG_BODY", "BIS_POS", BSZ_POS)
          [] bs.state = "BIS_DEBUG_BODY" -> bin_body(s, "BIS_DEBUG_HEAD", BSZ_DEBUG_HEAD)
          [] bs.state = "BIS_POS" ->
            bin_table(s, bs.pos_size, BSZ_POS, "BIS_CMD", BSZ_CMD, FALSE)
          [] bs.state = "BIS_CMD" ->
            bin_table(s, bs.cmd_size, BSZ_CMD, "BIS_OPS", bs.ops_size + 1, TRUE)
          [] bs.state = "BIS_OPS" ->
            LET s1 == WRITE(s)
                buf == s1.sc.binstate.buf
            IN  IF s1.sc.binstate.left # 0 THEN s1
                ELSE IF ~TerminatorOk(buf)
                THEN [s1 EXCEPT !.sc.err = "Error: Invalid binary file", !.res = FALSE]
                ELSE [s1 EXCEPT !.p.ops = SubSeq(buf, 1, Len(buf) - 1),
                                !.sc.binstate.buf = <<>>,
                                !.sc.binstate.state = "BIS_DONE"]
          [] bs.state = "BIS_DONE" ->
            [s EXCEPT !.sc.err = "Error: Invalid data at end of file", !.res = FALSE]

RECURSIVE bin_loop(_)
bin_loop(s) ==
    IF Len(s.bytes) = 0 \/ ~s.res THEN s
    ELSE CHOOSE r \in {bin_loop(t) : t \in {bin_switch(s)}} : TRUE

\* binary_validate: the end of a binary input
binary_validate(sc, p) ==
    IF sc.err # "NULL" THEN sc
    ELSE IF sc.binstate.state = "BIS_DONE"
    THEN IF ~program_validate(p) THEN [sc EXCEPT !.err = "Error: Invalid program code"]
         ELSE sc
    ELSE [sc EXCEPT !.err = "Error: Invalid end of file"]

\* sink_scr_write that keeps the error of the write before
C38_WriteKeepsErr(sc, p, bytes) ==
    IF Len(bytes) <= 0 THEN [sc |-> sc, p |-> p, res |-> TRUE]
    ELSE LET sc1 == IF sc.mode # "SCM_UNKNOWN" THEN sc
                    ELSE IF bytes[1] = BinFirst
                    THEN [sc EXCEPT !.mode = "SCM_BINARY",
                                    !.binstate = [@ EXCEPT !.state = "BIS_HEADER",
                                                           !.left = BSZ_HEADER,
                                                           !.buf = <<>>]]
                    ELSE [sc EXCEPT !.mode = "SCM_TEXT"]
         IN  IF sc1.mode = "SCM_BINARY"
             THEN LET is_eval == ~p.repl /\ ~sc.file
                      end(s) ==
                        IF ~s.res THEN [sc |-> s.sc, p |-> s.p, res |-> FALSE]
                        ELSE IF is_eval
                        THEN CHOOSE r \in {[sc |-> sc2, p |-> s.p, res |-> sc2.err = "NULL"] :
                                                sc2 \in {binary_validate(s.sc, s.p)}} : TRUE
                        ELSE [sc |-> s.sc, p |-> s.p, res |-> s.sc.err = "NULL"]
                  IN  CHOOSE r \in {end(s) : s \in {bin_loop([sc |-> sc1,
                                                               p |-> p, bytes |-> bytes,
                                                               res |-> TRUE])}} : TRUE
             ELSE [sc |-> [sc1 EXCEPT !.err = "NULL"], p |-> p, res |-> TRUE]

\* sink_scr_write: the script, the program and the result of a write of bytes;
\* the compiler that takes a text input is outside this model
sink_scr_write(sc, p, bytes) ==
    IF Len(bytes) <= 0 THEN [sc |-> sc, p |-> p, res |-> TRUE]
    ELSE LET sc1 == IF sc.mode # "SCM_UNKNOWN" THEN sc
                    ELSE IF bytes[1] = BinFirst
                    THEN [sc EXCEPT !.mode = "SCM_BINARY",
                                    !.binstate = [@ EXCEPT !.state = "BIS_HEADER",
                                                           !.left = BSZ_HEADER,
                                                           !.buf = <<>>]]
                    ELSE [sc EXCEPT !.mode = "SCM_TEXT"]
         IN  IF sc1.mode = "SCM_BINARY"
             THEN LET is_eval == ~p.repl /\ ~sc.file
                      end(s) ==
                        IF ~s.res THEN [sc |-> s.sc, p |-> s.p, res |-> FALSE]
                        ELSE IF is_eval
                        THEN CHOOSE r \in {[sc |-> sc2, p |-> s.p, res |-> sc2.err = "NULL"] :
                                                sc2 \in {binary_validate(s.sc, s.p)}} : TRUE
                        ELSE [sc |-> s.sc, p |-> s.p, res |-> s.sc.err = "NULL"]
                  IN  CHOOSE r \in {end(s) : s \in {bin_loop([sc |-> [sc1 EXCEPT !.err = "NULL"],
                                                               p |-> p, bytes |-> bytes,
                                                               res |-> TRUE])}} : TRUE
             ELSE [sc |-> [sc1 EXCEPT !.err = "NULL"], p |-> p, res |-> TRUE]

\* fsread of the host: the file written in pieces of FileChunk bytes, until a
\* write fails
FileChunk == 5000
RECURSIVE fsread(_, _, _)
fsread(sc, p, bytes) ==
    IF Len(bytes) = 0 THEN [sc |-> sc, p |-> p]
    ELSE LET n == IF Len(bytes) > FileChunk THEN FileChunk ELSE Len(bytes)
             next(r) ==
                IF ~r.res THEN [sc |-> r.sc, p |-> r.p]
                ELSE fsread(r.sc, r.p, SubSeq(bytes, n + 1, Len(bytes)))
         IN  CHOOSE x \in {next(r) : r \in {sink_scr_write(sc, p, SubSeq(bytes, 1, n))}} : TRUE

\* sfr_end, when the file was read
sfr_end(sc, p) ==
    IF sc.mode = "SCM_BINARY" THEN binary_validate(sc, p) ELSE sc

\* sink_scr_loadfile of a file that exists: sfr_begin, the host's read, sfr_end
sink_scr_loadfile(sc, p, bytes) ==
    LET end(r) ==
            CHOOSE x \in {[sc |-> sc1, p |-> r.p, res |-> sc1.err = "NULL"] :
                                sc1 \in {sfr_end(r.sc, r.p)}} : TRUE
    IN  CHOOSE x \in {end(r) : r \in {fsread([sc EXCEPT !.err = "NULL", !.file = TRUE],
                                               p, bytes)}} : TRUE

\* the most opcodes a behaviour executes and the most calls of sink_ctx_run on a
\* loaded program
MaxOpsL == 10
MaxRunsL == 5

\* a word and a key as the dump of a program writes them
u32(n) == <<n % 256, (n \div 256) % 256, (n \div 65536) % 256, n \div 16777216>>
u64(n) == u32(n) \o u32(0)

\* the binary file of a program with one string, "\n", and the two keys
BinFile(ops) ==
    u32(BinMagic) \o u32(1) \o u32(2) \o u32(0) \o u32(0) \o u32(0) \o u32(Len(ops))
        \o u32(1) \o <<10>> \o u64(1) \o u64(2) \o ops \o <<BinLast>>

\* programs validation accepts and programs it rejects
LoaderPrograms ==
    {PrgSay, PrgCall, <<OP_CMDTAIL>>, <<200>>, I_JUMP(2), I_NOP \o I_CMDHEAD(1, 255)}

\* their files, and files that are damaged: a wrong first word, a wrong last
\* byte, an end before the last byte, a byte after it
Files ==
    {BinFile(ops) : ops \in LoaderPrograms}
        \cup {[BinFile(I_NOP) EXCEPT ![2] = 0],
              [BinFile(I_NOP) EXCEPT ![Len(BinFile(I_NOP))] = 0],
              SubSeq(BinFile(I_NOP), 1, Len(BinFile(I_NOP)) - 1),
              BinFile(I_NOP) \o <<0>>}

Feeds == {"file", "eval", "chunked", "repl"}
ChunkSizes == {20, 60}

\* newctx of the host: a context on the program, the host's natives registered
newctx(p) == RegisterNatives(context_new(p), Program(<<>>).keys)

\* main_run: the file is loaded, and a context made when the load succeeded
HostLoadFile ==
    /\ control.at = "host"
    /\ scr.feed = "file"
    /\ ~scr.done
    /\ \E r \in {sink_scr_loadfile(scr, prg, scr.input)} :
           /\ scr' = [r.sc EXCEPT !.input = <<>>, !.done = TRUE, !.nwrites = @ + 1]
           /\ prg' = r.p
           /\ valid' = program_validate(r.p)
           /\ host' = [host EXCEPT !.loaded = r.res]
           /\ ctx' = IF r.res THEN newctx(r.p) ELSE ctx
    /\ UNCHANGED <<waits, control, ghost>>

\* main_eval, and a host that writes the input in pieces: a context is made when
\* the write of the last piece succeeded
HostWrite ==
    /\ control.at = "host"
    /\ scr.feed \in {"eval", "chunked"}
    /\ ~scr.done
    /\ \E n \in IF scr.feed = "eval" THEN {Len(scr.input)} ELSE ChunkSizes :
        LET k == IF n > Len(scr.input) THEN Len(scr.input) ELSE n
            rest == SubSeq(scr.input, k + 1, Len(scr.input))
        IN  \E r \in {sink_scr_write(scr, prg, SubSeq(scr.input, 1, k))} :
            LET ok == Len(rest) = 0 /\ r.res IN
            /\ scr' = [r.sc EXCEPT !.input = rest, !.done = Len(rest) = 0, !.nwrites = @ + 1]
            /\ prg' = r.p
            /\ valid' = program_validate(r.p)
            /\ host' = [host EXCEPT !.loaded = ok]
            /\ ctx' = IF ok THEN newctx(r.p) ELSE ctx
    /\ UNCHANGED <<waits, control, ghost>>

\* main_repl_nextline, the handler of every run of the REPL: the next line of
\* the input is written, a newline added at its end, the result only printed
ReplWrite ==
    /\ control.at = "host"
    /\ scr.feed = "repl"
    /\ ~scr.done
    /\ host.nres > scr.nwrites
    /\ LET nl == {i \in 1..Len(scr.input) : scr.input[i] = 10}
           k == IF nl = {} THEN Len(scr.input)
                ELSE CHOOSE i \in nl : \A j \in nl : i <= j
           line == IF nl = {} THEN scr.input \o <<10>> ELSE SubSeq(scr.input, 1, k)
       IN  \E r \in {sink_scr_write(scr, prg, line)} :
           /\ scr' = [r.sc EXCEPT !.input = SubSeq(scr.input, k + 1, Len(scr.input)),
                                  !.done = nl = {}, !.nwrites = @ + 1]
           /\ prg' = r.p
           /\ valid' = program_validate(r.p)
    /\ UNCHANGED <<ctx, waits, control, host, ghost>>

InitLoader ==
    /\ scr \in {sink_scr_new(f, i) : f \in Feeds, i \in Files}
    /\ prg = program_new(scr.feed = "repl")
    /\ valid = program_validate(prg)
    /\ ctx = newctx(prg)
    /\ waits = [w \in WaitIds |-> FreeWait]
    /\ control = ControlInit
    /\ host = [HostInit EXCEPT !.loaded = scr.feed = "repl"]
    /\ ghost = GhostInit

NextLoader ==
    \/ HostLoadFile
    \/ HostWrite
    \/ ReplWrite
    \/ HostRun(MaxRunsL)
    \/ Step(MaxOpsL)
    \/ HostResult

SpecLoader == InitLoader /\ [][NextLoader]_vars

\* C7: a precompiled program that fails validation is rejected before any of
\* its opcodes executes, however the host feeds it in (file load, one write,
\* writes of pieces, writes of a REPL): whenever a context has executed an
\* opcode, the program it runs is one validation accepts.
C7_RejectedBeforeExecution ==
    ghost.execd > 0 => program_validate(prg)

-----------------------------------------------------------------------------
(* The string and list pools and the collector                              *)
(* The context of this part is the context above with the pools beside it:  *)
(* the allocation and reference bitmaps are the sets of the bits that are   *)
(* set, a list value is the tagged index of its slot in list_tbl.           *)

MaxLists == 2
MaxStrs == 1
MaxListLen == 2
MaxDepthG == 2
MaxUsers == 2
MaxStepsG == 6

\* a list value: SINK_TAG_LIST | index
ListRef(i) == [t |-> "list", n |-> i, v |-> <<>>]

var_index(v) == v.n

\* a slot of list_tbl nothing was allocated in
ListNone == [vals |-> <<>>, usertype |-> -1, user |-> 0]

\* context_new: the pools; the strings of the program's table are allocated at
\* the indices below str_prealloc_size, which is 0 in REPL mode
context_pools(p) ==
    [str_prealloc_size |-> IF p.repl THEN 0 ELSE p.strs,
     str_aloc |-> IF p.repl THEN {} ELSE 0..(p.strs - 1),
     str_ref |-> {},
     list_aloc |-> {},
     list_ref |-> {},
     list_tbl |-> [i \in 0..(MaxLists - 1) |-> ListNone],
     f_finalize |-> <<>>]

\* sink_ctx_addusertype
sink_ctx_addusertype(c, f_free) == [c EXCEPT !.f_finalize = Append(@, f_free)]

\* bmp_alloc: the first bit that is not set
bmp_alloc(aloc) == CHOOSE i \in 0..Cardinality(aloc) : i \notin aloc

\* sink_str_newblobgive: <<the context, the new value>>
sink_str_newblob(c) ==
    LET index == bmp_alloc(c.str_aloc)
    IN  <<[c EXCEPT !.str_aloc = @ \cup {index}], StrVal(index)>>

\* sink_list_newblobgive / sink_list_newempty
sink_list_newblob(c, vals) ==
    LET index == bmp_alloc(c.list_aloc)
    IN  <<[c EXCEPT !.list_aloc = @ \cup {index},
                    !.list_tbl[index] = [vals |-> vals, usertype |-> -1, user |-> 0]],
          ListRef(index)>>

\* opi_list_push
opi_list_push(c, a, b) == [c EXCEPT !.list_tbl[var_index(a)].vals = Append(@, b)]

\* context_clearref: the strings of the program's table start referenced
context_clearref(c) ==
    [c EXCEPT !.str_ref = {i \in 0..(c.str_prealloc_size - 1) : TRUE},
              !.list_ref = {}]

\* a marking that sets the bits of the values it is given and walks no list
C12_MarkShallow(c, vals) ==
    [c EXCEPT !.str_ref = @ \cup {var_index(vals[i]) :
                                    i \in {k \in 1..Len(vals) : sink_isstr(vals[k])}},
              !.list_ref = @ \cup {var_index(vals[i]) :
                                    i \in {k \in 1..Len(vals) : sink_islist(vals[k])}}]

\* context_markvals: bmp_setbit for a string; for a list bmp_hassetbit, and the
\* walk of its values only when the bit was not set before
RECURSIVE context_markvals(_, _)
context_markvals(c, vals) ==
    IF vals = <<>> THEN c
    ELSE LET v == Head(vals)
             idx == var_index(v)
             rest(d) == context_markvals(d, Tail(vals))
         IN  IF sink_isstr(v) THEN rest([c EXCEPT !.str_ref = @ \cup {idx}])
             ELSE IF sink_islist(v) /\ idx \notin c.list_ref
             THEN CHOOSE r \in {rest(d) : d \in
                        {context_markvals([c EXCEPT !.list_ref = @ \cup {idx}],
                                          c.list_tbl[idx].vals)}} : TRUE
             ELSE rest(c)

\* the registers of a frame in the order of their indices (nil marks nothing)
RECURSIVE FrameVals(_, _)
FrameVals(f, from) ==
    LET S == {i \in DOMAIN f : i >= from}
    IN  IF S = {} THEN <<>>
        ELSE LET i == CHOOSE k \in S : \A j \in S : k <= j
             IN  <<f[i]>> \o FrameVals(f, i + 1)

\* the registers of a chain lex_stk->ptrs[i], here, here->next, ...
RECURSIVE ChainVals(_)
ChainVals(chain) ==
    IF chain = <<>> THEN <<>>
    ELSE FrameVals(Head(chain), 0) \o ChainVals(Tail(chain))

RECURSIVE StackVals(_)
StackVals(stk) ==
    IF stk = <<>> THEN <<>> ELSE ChainVals(Head(stk)) \o StackVals(Tail(stk))

\* context_mark: the pinned values, then every frame of every chain
context_mark(c) ==
    CHOOSE r \in {context_markvals(d, StackVals(c.lex_stk)) :
                    d \in {context_markvals(c, c.pinned)}} : TRUE

\* a sweep that finds nothing to free
C13_SweepNothing(aloc, ref) == {}

\* context_sweephelp: the bits that are allocated and not referenced
context_sweephelp(aloc, ref) == {i \in aloc : i \notin ref}

\* context_sweepfree_list: the finalizer of the list's user type, if it has one,
\* is called with the user datum; the values are freed
context_sweepfree_list(m, index) ==
    LET ls == m.ctx.list_tbl[index]
        f_free == ls.usertype >= 0 /\ m.ctx.f_finalize[ls.usertype + 1]
    IN  [m EXCEPT !.ctx.list_tbl[index].vals = <<>>,
                  !.ghost.fin_obj[index] = IF f_free THEN @ + 1 ELSE @,
                  !.ghost.fin_user = IF f_free THEN [@ EXCEPT ![ls.user] = @ + 1] ELSE @]

RECURSIVE SweepFreeLists(_, _)
SweepFreeLists(m, free) ==
    IF free = {} THEN m
    ELSE LET i == CHOOSE k \in free : \A j \in free : k <= j
         IN  SweepFreeLists(context_sweepfree_list(m, i), free \ {i})

\* context_sweep
context_sweep(m) ==
    LET fs == context_sweephelp(m.ctx.str_aloc, m.ctx.str_ref)
        fl == context_sweephelp(m.ctx.list_aloc, m.ctx.list_ref)
    IN  SweepFreeLists([m EXCEPT !.ctx.str_aloc = @ \ fs,
                                 !.ctx.list_aloc = @ \ fl], fl)

\* the values a string or a list of the pools can be named by
HeapVals == {StrVal(i) : i \in 0..(MaxStrs - 1)} \cup {ListRef(i) : i \in 0..(MaxLists - 1)}

\* what the collector must keep: the pinned values, the registers of every frame
\* of every chain, and what the lists among them hold, to any depth
RootVals(c) ==
    {c.pinned[i] : i \in 1..Len(c.pinned)}
    \cup UNION {UNION {{c.lex_stk[l][k][r] : r \in DOMAIN c.lex_stk[l][k]} :
                        k \in 1..Len(c.lex_stk[l])} : l \in 1..Len(c.lex_stk)}

RECURSIVE ReachFrom(_, _)
ReachFrom(c, S) ==
    LET T == S \cup UNION {{c.list_tbl[var_index(x)].vals[i] :
                                i \in 1..Len(c.list_tbl[var_index(x)].vals)} :
                            x \in {y \in S : sink_islist(y)}}
    IN  IF T = S THEN S ELSE ReachFrom(c, T)

Reach(c) == {v \in ReachFrom(c, RootVals(c)) : sink_isstr(v) \/ sink_islist(v)}

Allocated(c, v) ==
    IF sink_isstr(v) THEN var_index(v) \in c.str_aloc ELSE var_index(v) \in c.list_aloc

\* the values the frames hold, leaving the pinned list aside
FrameReach(c) == Reach([c EXCEPT !.pinned = <<>>])

\* context_gc in full: clear, mark, sweep, then the budgets
context_collect(m) ==
    LET m1 == context_sweep([m EXCEPT !.ctx = context_mark(context_clearref(@))])
    IN  [m1 EXCEPT !.ctx = context_gc(@), !.ghost.swept = TRUE,
                   !.ghost.live = Reach(m.ctx), !.ghost.flive = FrameReach(m.ctx)]

\* sink_list_setuser: the finalizer runs on the datum the list had before
sink_list_setuser(m, ls, usertype, user) ==
    LET old == m.ctx.list_tbl[var_index(ls)]
        f_free == old.usertype >= 0 /\ m.ctx.f_finalize[old.usertype + 1]
    IN  [m EXCEPT !.ctx.list_tbl[var_index(ls)].usertype = usertype,
                  !.ctx.list_tbl[var_index(ls)].user = user,
                  !.ghost.fin_obj[var_index(ls)] = IF f_free THEN @ + 1 ELSE @,
                  !.ghost.fin_user = IF f_free THEN [@ EXCEPT ![old.user] = @ + 1] ELSE @]

\* the registers the opcodes of this part work on
RegsG == {0, 1}
FramesG(c) == {A \in 0..c.lex_index : FrameLive(c, A)}

MachG == [Mach EXCEPT !.ghost.steps = @ + 1, !.ghost.swept = FALSE, !.ghost.live = {},
                       !.ghost.flive = {}]

CommitG(m) == Commit(m) /\ UNCHANGED <<prg, valid, scr>>

\* OP_STR: in REPL mode a copy of the program's string, else the string itself
GcOpStr ==
    /\ ghost.steps < MaxStepsG
    /\ \E A \in FramesG(ctx), B \in RegsG :
        /\ prg.repl => Cardinality(ctx.str_aloc) < MaxStrs
        /\ LET m == MachG
           IN  IF prg.repl
               THEN \E r \in {sink_str_newblob(m.ctx)} :
                        CommitG([m EXCEPT !.ctx = var_set(r[1], A, B, r[2])])
               ELSE CommitG([m EXCEPT !.ctx = var_set(@, A, B, StrVal(0))])

\* OP_LIST: a new empty list
GcOpList ==
    /\ ghost.steps < MaxStepsG
    /\ \E A \in FramesG(ctx), B \in RegsG :
        /\ Cardinality(ctx.list_aloc) < MaxLists
        /\ \E r \in {sink_list_newblob(ctx, <<>>)} :
              CommitG([MachG EXCEPT !.ctx = var_set(r[1], A, B, r[2]),
                                    !.ghost.fin_obj[var_index(r[2])] = 0])

\* OP_LIST_PUSH: X = var_get(C, D), Y = var_get(E, F), push, var_set(A, B, X)
GcOpListPush ==
    /\ ghost.steps < MaxStepsG
    /\ \E C \in FramesG(ctx), D \in RegsG, E \in FramesG(ctx), F \in RegsG :
        LET A == C
            B == D
            X == var_get(ctx, C, D)
            Y == var_get(ctx, E, F)
        IN  /\ sink_islist(X)
            /\ Len(ctx.list_tbl[var_index(X)].vals) < MaxListLen
            /\ CommitG([MachG EXCEPT !.ctx = var_set(opi_list_push(@, X, Y), A, B, X)])

\* OP_MOVE
GcOpMove ==
    /\ ghost.steps < MaxStepsG
    /\ \E A \in FramesG(ctx), B \in RegsG, C \in FramesG(ctx), D \in RegsG :
        CommitG([MachG EXCEPT !.ctx = var_set(@, A, B, var_get(ctx, C, D))])

\* OP_NIL
GcOpNil ==
    /\ ghost.steps < MaxStepsG
    /\ \E A \in FramesG(ctx), B \in RegsG :
        /\ ~sink_isnil(var_get(ctx, A, B))
        /\ CommitG([MachG EXCEPT !.ctx = var_set(@, A, B, SINK_NIL)])

\* OP_CALL of a command at level 1 with the arguments p
GcOpCall ==
    /\ ghost.steps < MaxStepsG
    /\ \E A \in {ctx.lex_index}, B \in {0}, G \in 0..1, C \in FramesG(ctx), D \in RegsG :
        /\ Len(ctx.call_stk) < MaxDepthG
        /\ G = 0 => (C = 0 /\ D = 0)
        /\ LET p == IF G = 0 THEN <<>> ELSE <<var_get(ctx, C, D)>>
               s == [pc |-> ctx.pc, frame |-> A, index |-> B, lex_index |-> ctx.lex_index]
               stk == GrowLex(ctx.lex_stk, 1)
           IN  CommitG([MachG EXCEPT !.ctx.call_stk = Append(@, s),
                                     !.ctx.lex_index = 1,
                                     !.ctx.lex_stk = [stk EXCEPT ![2] = <<lxs_get(p)>> \o @]])

\* OP_RETURN
GcOpReturn ==
    /\ ghost.steps < MaxStepsG
    /\ \E A \in FramesG(ctx), B \in RegsG :
        /\ Len(ctx.call_stk) > 0
        /\ LET X == var_get(ctx, A, B)
               s == ctx.call_stk[Len(ctx.call_stk)]
               c1 == [PopFrame(ctx) EXCEPT !.call_stk = SubSeq(@, 1, Len(@) - 1),
                                           !.lex_index = s.lex_index,
                                           !.pc = s.pc]
           IN  CommitG([MachG EXCEPT !.ctx = var_set(c1, s.frame, s.index, X)])

\* OP_GC_RUN, and the collection the loop runs when gc_left runs out
GcOpGcRun ==
    /\ ghost.steps < MaxStepsG
    /\ \E A \in {ctx.lex_index}, B \in RegsG :
        \E m \in {context_collect(MachG)} :
            CommitG([m EXCEPT !.ctx = var_set(@, A, B, SINK_NIL)])

GcTick ==
    /\ ghost.steps < MaxStepsG
    /\ \E m \in {context_collect(MachG)} : CommitG(m)

\* sink_gc_pin / sink_gc_unpin / sink_list_setuser, from a native command that
\* names a value it was given
HostGcPin ==
    /\ ghost.steps < MaxStepsG
    /\ \E v \in Reach(ctx) :
        /\ Len(ctx.pinned) < MaxPinned
        /\ CommitG([MachG EXCEPT !.ctx = context_gcpin(@, v),
                                 !.ghost.pins[v] = @ + 1])

HostGcUnpin ==
    /\ ghost.steps < MaxStepsG
    /\ \E v \in Reach(ctx) :
        CommitG([MachG EXCEPT !.ctx = context_gcunpin(@, v),
                              !.ghost.pins[v] = IF @ > 0 THEN @ - 1 ELSE 0,
                              !.ghost.unpinned = @ \/ ghost.pins[v] > 0])

HostSetUser ==
    /\ ghost.steps < MaxStepsG
    /\ \E ls \in {v \in Reach(ctx) : sink_islist(v)} :
        /\ ghost.users < MaxUsers
        /\ \E m \in {sink_list_setuser(MachG, ls, 0, ghost.users + 1)} :
              CommitG([m EXCEPT !.ghost.users = @ + 1])

GhostGC ==
    [fin_obj |-> [i \in 0..(MaxLists - 1) |-> 0],
     fin_user |-> [u \in 1..MaxUsers |-> 0],
     users |-> 0, swept |-> FALSE, live |-> {}, flive |-> {}, steps |-> 0,
     pins |-> [v \in HeapVals |-> 0], unpinned |-> FALSE]

InitGC ==
    /\ prg \in {[Program(<<>>) EXCEPT !.repl = r] : r \in BOOLEAN}
    /\ valid = program_validate(prg)
    /\ ctx = sink_ctx_addusertype(context_pools(prg) @@ context_new(prg), TRUE)
    /\ waits = [w \in WaitIds |-> FreeWait]
    /\ control = ControlInit
    /\ host = HostInit
    /\ ghost = GhostGC @@ GhostInit
    /\ scr = ScrNone

NextGC ==
    \/ GcOpStr
    \/ GcOpList
    \/ GcOpListPush
    \/ GcOpMove
    \/ GcOpNil
    \/ GcOpCall
    \/ GcOpReturn
    \/ GcOpGcRun
    \/ GcTick
    \/ HostGcPin
    \/ HostGcUnpin
    \/ HostSetUser

SpecGC == InitGC /\ [][NextGC]_vars

\* C12: whatever the pinned values, the registers of the frames of every
\* activation, current or outer, and the lists among them reach - through
\* cycles too - is still allocated after a collection, which terminates.
C12_ReachableSurvives ==
    \A v \in Reach(ctx) : Allocated(ctx, v)

\* a list that holds itself, held only by the frame of an outer activation,
\* is allocated right after a collection
C12_Witness ==
    /\ ghost.swept
    /\ Len(ctx.call_stk) = 2
    /\ \E i \in ctx.list_aloc :
          /\ ListRef(i) \in {ctx.list_tbl[i].vals[k] : k \in 1..Len(ctx.list_tbl[i].vals)}
          /\ ListRef(i) \in {ctx.lex_stk[2][2][r] : r \in DOMAIN ctx.lex_stk[2][2]}
          /\ ListRef(i) \notin {ctx.lex_stk[2][1][r] : r \in DOMAIN ctx.lex_stk[2][1]}
          /\ ListRef(i) \notin {ctx.lex_stk[1][1][r] : r \in DOMAIN ctx.lex_stk[1][1]}
          /\ ctx.pinned = <<>>

\* C13: right after a collection every string and list that was not reachable
\* from the pinned values or a frame has been freed, and over the lifetime of a
\* list object the finalizer of its user type has run at most once.
C13_UnreachableFreed ==
    /\ ghost.swept => \A v \in HeapVals : Allocated(ctx, v) => v \in ghost.live
    /\ \A i \in 0..(MaxLists - 1) : ghost.fin_obj[i] <= 1

\* C13 as the collector keeps it: the strings of the program's table stay, and
\* the finalizer runs at most once for each user datum a list was given
C13_UnreachableFreedButTable ==
    /\ ghost.swept =>
          \A v \in HeapVals :
              Allocated(ctx, v) =>
                  \/ v \in ghost.live
                  \/ sink_isstr(v) /\ var_index(v) < ctx.str_prealloc_size
    /\ \A u \in 1..MaxUsers : ghost.fin_user[u] <= 1

\* a list with a user datum, dropped by the frames, was freed by the collection
\* and its finalizer ran
C13_Witness ==
    /\ ghost.swept
    /\ \E i \in 0..(MaxLists - 1) :
          /\ i \notin ctx.list_aloc
          /\ ctx.list_tbl[i].usertype = 0
          /\ ghost.fin_user[ctx.list_tbl[i].user] = 1

PinCount(c, v) == Cardinality({i \in 1..Len(c.pinned) : c.pinned[i] = v})

\* C14: a value pinned more often than unpinned is allocated, whatever
\* collections ran, and holds as many pins as the pin calls less the unpin calls:
\* sink_gc_unpin takes exactly one of them away.
C14_PinnedProtected ==
    \A v \in HeapVals :
        /\ PinCount(ctx, v) = ghost.pins[v]
        /\ ghost.pins[v] > 0 => Allocated(ctx, v)

\* a list pinned twice and unpinned once, held by no frame when the collection
\* ran, is allocated right after it
C14_Witness ==
    /\ ghost.swept
    /\ ghost.unpinned
    /\ \E v \in HeapVals :
          /\ sink_islist(v)
          /\ ghost.pins[v] = 1
          /\ v \notin ghost.flive
          /\ Allocated(ctx, v)

-----------------------------------------------------------------------------
(* The REPL: lines compiled and appended to the program, each one run       *)

MaxLinesR == 3
MaxOpsR == 12

\* the code the compiler appends for a line, laid out from location b:
\* an assignment; an abort with code after it; a command that aborts, called
LineSet(b) == I_NUMP8(0, 0, 7)
LineAbort(b) == Flat(<< I_NUMP8(0, 0, 7), I_ABORT(0, 1, <<0, 0>>), I_NUMP8(0, 2, 9) >>)
LineCallAbort(b) ==
    Flat(<< I_JUMP(b + 19), I_CMDHEAD(1, 255), I_NUMP8(1, 0, 3), I_ABORT(1, 1, <<1, 0>>),
            I_CMDTAIL, I_CALL(0, 0, b + 5, <<>>), I_NUMP8(0, 2, 9) >>)
LineKinds == {"set", "abort", "callabort"}
LineCode(kind, b) ==
    CASE kind = "set" -> LineSet(b)
      [] kind = "abort" -> LineAbort(b)
      [] OTHER -> LineCallAbort(b)

\* main_repl_nextline: the line is written - its code lands at the end of
\* prg->ops - once the line before has been run
ReplLine ==
    /\ control.at = "host"
    /\ host.runs = scr.lines
    /\ scr.lines < MaxLinesR
    /\ \E kind \in LineKinds :
          /\ prg' = [prg EXCEPT !.ops = @ \o LineCode(kind, Len(prg.ops))]
          /\ scr' = [scr EXCEPT !.lines = @ + 1,
                                !.base = Len(prg.ops),
                                !.afterfail = ghost.lastres = SINK_RUN_FAIL,
                                !.prev = scr.kind,
                                !.kind = kind]
    /\ valid' = valid
    /\ UNCHANGED <<ctx, waits, control, host, ghost>>

\* main_repl: the context is run after the line
ReplRun ==
    /\ host.runs < scr.lines
    /\ HostRun(MaxLinesR)

InitRepl ==
    /\ prg = program_new(TRUE)
    /\ valid = program_validate(prg)
    /\ ctx = newctx(prg)
    /\ waits = [w \in WaitIds |-> FreeWait]
    /\ control = ControlInit
    /\ host = HostInit
    /\ ghost = GhostInit
    /\ scr = [mode |-> "repl", lines |-> 0, base |-> 0, afterfail |-> FALSE,
              prev |-> "none", kind |-> "none"]

NextRepl ==
    \/ ReplLine
    \/ ReplRun
    \/ Step(MaxOpsR)

SpecRepl == InitRepl /\ [][NextRepl]_vars

\* C15: in REPL mode a run that failed leaves the context ready, at top level;
\* the run after it starts with no error message and its first opcode is the
\* first of the code appended since, at the end of the code loaded before.
C15_ReplRecovers ==
    /\ (control.at = "host" /\ ghost.lastres = SINK_RUN_FAIL) =>
          /\ sink_ctx_getstatus(ctx) = "READY"
          /\ ctx.call_stk = <<>>
          /\ ctx.lex_index = 0
    /\ (scr.afterfail /\ host.runs = scr.lines /\ ghost.opcount = 0) => ctx.err = "NULL"
    /\ (scr.afterfail /\ host.runs = scr.lines /\ ghost.opcount = 1) => ghost.at = scr.base

\* the line after one whose command aborted inside a call has run its first
\* opcode, which is the first of the line
C15_Witness ==
    /\ scr.afterfail
    /\ scr.prev = "callabort"
    /\ host.runs = scr.lines
    /\ ghost.opcount = 1
    /\ ghost.at = scr.base
    /\ scr.base > 0

-----------------------------------------------------------------------------
(* The registry of native commands                                          *)

MaxRegs == 3

\* the hashes the host registers under: those of the key table, and one more
HashesN == 1..3
NatUsers == 1..2

\* whether the context holds an implementation for the hash
HasImpl(c, hash) == \E i \in 1..Len(c.natives) : c.natives[i].hash = hash /\ c.natives[i].f_native

\* the implementation OP_NATIVE finds for the hash: the first entry that has it
ImplOf(c, hash) ==
    LET i == CHOOSE k \in 1..Len(c.natives) :
                c.natives[k].hash = hash /\ \A j \in 1..(k - 1) : c.natives[j].hash # hash
    IN  c.natives[i].natuser

\* sink_ctx_nativehash
HostNative ==
    /\ ghost.regs < MaxRegs
    /\ \E hash \in HashesN, natuser \in NatUsers :
          \E c \in {context_native(ctx, hash, natuser)} :
              /\ ctx' = c
              /\ ghost' = [ghost EXCEPT
                              !.regs = @ + 1,
                              !.collided = @ \/ HasImpl(ctx, hash),
                              !.impl = IF ~HasImpl(ctx, hash) /\ HasImpl(c, hash)
                                       THEN [@ EXCEPT ![hash] = natuser] ELSE @]
    /\ UNCHANGED <<prg, valid, waits, control, host, scr>>

InitNative ==
    /\ prg \in {[Program(<<>>) EXCEPT !.repl = r] : r \in BOOLEAN}
    /\ valid = program_validate(prg)
    /\ ctx = context_new(prg)
    /\ waits = [w \in WaitIds |-> FreeWait]
    /\ control = ControlInit
    /\ host = HostInit
    /\ ghost = [regs |-> 0, collided |-> FALSE, impl |-> [h \in HashesN |-> 0]] @@ GhostInit
    /\ scr = ScrNone

NextNative ==
    \/ HostNative

SpecNative == InitNative /\ [][NextNative]_vars

\* C16: once a registration was made under a hash the context already held an
\* implementation for, the context has failed with an error message, and every
\* hash is bound to the implementation registered for it first.
C16_CollisionAborts ==
    /\ ghost.collided => (ctx.failed /\ ctx.err # "NULL")
    /\ \A h \in HashesN : ghost.impl[h] # 0 => ImplOf(ctx, h) = ghost.impl[h]

\* the same for a context that is not in REPL mode
C16_CollisionAbortsCompiled ==
    ~prg.repl => C16_CollisionAborts

-----------------------------------------------------------------------------
(* The terminating byte of a compiled module                                *)

\* where the layout of the files above puts the byte after the opcode bytes:
\* the header, one string of one byte, two keys, ops_size opcode bytes
TermAt(file) == BSZ_HEADER + BSZ_STR_HEAD + 1 + 2 * BSZ_KEY + GETINT(file, 24)

\* the module was taken: its opcodes were installed in the program; the load of
\* a file or of an evaluated buffer succeeded
Installed == prg.ops # <<>>
Accepted == scr.feed # "repl" /\ scr.done /\ host.loaded

\* C17: a compiled module is accepted only if the byte after its declared
\* opcode bytes is 0xFD and is the last byte of the file.
C17_TerminatorRequired ==
    /\ Installed => /\ Len(scr.given) > TermAt(scr.given)
                    /\ scr.given[TermAt(scr.given) + 1] = BinLast
    /\ Accepted => /\ Len(scr.given) = TermAt(scr.given) + 1
                   /\ scr.given[Len(scr.given)] = BinLast

\* a module that ends with 0xFD was accepted, and its code has run
C17_Witness ==
    /\ Accepted
    /\ Installed
    /\ scr.given[Len(scr.given)] = BinLast
    /\ ghost.execd > 0

-----------------------------------------------------------------------------
(* Calls, returns and tail-returns                                          *)

CallCorpus == {Program(PrgCall), Program(PrgNestedCall), Program(PrgTail),
               Program(PrgTailLoop)}

InitCalls ==
    /\ prg \in CallCorpus
    /\ valid = program_validate(prg)
    /\ ctx = RegisterNatives(context_new(prg), prg.keys)
    /\ waits = [w \in WaitIds |-> FreeWait]
    /\ control = ControlInit
    /\ host = HostInit
    /\ ghost = GhostInit
    /\ scr = ScrNone

NextCalls ==
    \/ HostSetTimeout
    \/ HostRun(MaxRuns)
    \/ Step(MaxOps)
    \/ HostResult

SpecCalls == InitCalls /\ [][NextCalls]_vars

\* a step of the loop that runs the opcode op to its end, the run not finishing
OpStep(op) ==
    /\ control.at = "vm"
    /\ InBuf(prg.ops, ctx.pc, 1)
    /\ ByteAt(prg.ops, ctx.pc) = op
    /\ ghost'.execd = ghost.execd + 1
    /\ ghost'.fault = "none"
    /\ ~(control'.at = "host" /\ ghost'.lastres \in {SINK_RUN_PASS, SINK_RUN_FAIL})

\* a return, by OP_RETURN or by the OP_CMDTAIL that ends a body, and its result
ReturnStep == (OpStep(OP_RETURN) \/ OpStep(OP_CMDTAIL)) /\ Len(ctx.call_stk) > 0
ReturnX ==
    IF ByteAt(prg.ops, ctx.pc) = OP_CMDTAIL THEN SINK_NIL
    ELSE var_get(ctx, ByteAt(prg.ops, ctx.pc + 1), ByteAt(prg.ops, ctx.pc + 2))

\* the chains of frames have the lengths they had, chains added since are empty
SameShape(stk, shape) ==
    /\ Len(stk) >= Len(shape)
    /\ \A l \in 1..Len(stk) : Len(stk[l]) = IF l <= Len(shape) THEN shape[l] ELSE 0

\* C18: return pops the call record, puts the result in the slot the record
\* names, drops the frame of the callee and goes on at the recorded pc; the
\* depth of the call stack, the lexical index and the chains of frames are then
\* what they were when the call was made, and of the registers that were live
\* the return changes the target slot only.
C18_ReturnRestoresCaller ==
    [][ReturnStep =>
        LET s == ctx.call_stk[Len(ctx.call_stk)]
            snap == ghost.calls[Len(ghost.calls)]
            X == ReturnX
            popped == [ctx.lex_stk EXCEPT ![ctx.lex_index + 1] = Tail(@)]
        IN  /\ ctx'.call_stk = SubSeq(ctx.call_stk, 1, Len(ctx.call_stk) - 1)
            /\ ctx'.pc = s.pc
            /\ ctx'.lex_index = s.lex_index
            /\ ctx'.lex_stk = [popped EXCEPT ![s.frame + 1][1] = FrameSet(@, s.index, X)]
            /\ Len(ctx'.call_stk) = snap.depth
            /\ ctx'.lex_index = snap.lex_index
            /\ SameShape(ctx'.lex_stk, snap.shape)]_vars

\* the command of PrgCall has returned its argument to the top level
C18_Witness ==
    /\ prg.ops = PrgCall
    /\ control.at = "vm"
    /\ ctx.call_stk = <<>>
    /\ ctx.lex_index = 0
    /\ var_get(ctx, 0, 0) = sink_num(5)

\* C19: returntail pushes no call record and keeps the lexical index; the top
\* frame of the chain is replaced by one that holds the new arguments and nil
\* elsewhere; the pc goes to the target; whatever the number of tail-returns, the
\* return that follows goes to the caller of the first command.
C19_TailReusesFrame ==
    [][/\ OpStep(OP_RETURNTAIL) =>
            LET A == LE32(prg.ops, ctx.pc + 1)
                E == ByteAt(prg.ops, ctx.pc + 5)
                q == RestArgs(Args(ctx, prg.ops, ctx.pc + 6, E), ByteAt(prg.ops, A + 2))
                old == ctx.lex_stk[ctx.lex_index + 1]
                new == ctx'.lex_stk[ctx.lex_index + 1]
            IN  /\ ctx'.call_stk = ctx.call_stk
                /\ ctx'.lex_index = ctx.lex_index
                /\ ctx'.pc = A + 3
                /\ Len(new) = Len(old)
                /\ Tail(new) = Tail(old)
                /\ \A i \in 0..255 :
                      FrameGet(new[1], i) = IF i < Len(q) THEN q[i + 1] ELSE SINK_NIL
                /\ \A l \in 1..Len(ctx.lex_stk) :
                      l # ctx.lex_index + 1 => ctx'.lex_stk[l] = ctx.lex_stk[l]
       /\ (ReturnStep /\ ghost.calls[Len(ghost.calls)].tails = 1) =>
            LET snap == ghost.calls[Len(ghost.calls)]
            IN  /\ ctx'.pc = snap.pc
                /\ Len(ctx'.call_stk) = snap.depth
                /\ var_get(ctx', snap.frame, snap.index) = ReturnX
      ]_vars

\* the command of PrgTailLoop, after two tail-returns into itself, has returned
\* 9 to the top level
C19_Witness ==
    /\ prg.ops = PrgTailLoop
    /\ control.at = "vm"
    /\ ctx.call_stk = <<>>
    /\ var_get(ctx, 0, 0) = sink_num(9)

-----------------------------------------------------------------------------
(* order: the comparison of two values                                      *)

\* numbers whose bits the plain value does not tell: -0, and the NaNs
NegZero == [t |-> "num", n |-> 0, v |-> <<1>>]
NaNVal(payload) == [t |-> "num", n |-> 0, v |-> <<2, payload>>]
sink_num_isnan(x) == sink_isnum(x) /\ x.v # <<>> /\ x.v[1] = 2

\* sink_typeof, as the rank the comparison gives the types
sink_typeof(x) ==
    IF sink_isnil(x) THEN "nil" ELSE IF sink_isstr(x) THEN "str"
    ELSE IF sink_islist(x) THEN "list" ELSE "num"

\* memcmp over the first n bytes: negative, 0 or positive
RECURSIVE memcmp(_, _, _)
memcmp(s1, s2, n) ==
    IF n = 0 THEN 0
    ELSE IF s1[1] # s2[1] THEN s1[1] - s2[1]
    ELSE memcmp(Tail(s1), Tail(s2), n - 1)

Min2(x, y) == IF x < y THEN x ELSE y

\* list_int_has
list_int_has(ls, v) == \E i \in 1..Len(ls) : ls[i] = v

\* sortboth: res is the int returned, failed whether opi_abortcstr was called,
\* li the list of indices as the call leaves it; on entry li holds the indices
\* of the lists being compared further up
RECURSIVE sortboth(_, _, _, _)
RECURSIVE sortlists(_, _, _, _, _)
sortboth(c, li, a, b) ==
    LET atype == sink_typeof(a)
        btype == sink_typeof(b)
        ret(r) == [res |-> r, failed |-> FALSE, li |-> li]
    IN  IF a = b THEN ret(0)
        ELSE IF atype # btype
        THEN IF atype = "nil" THEN ret(-1)
             ELSE IF atype = "num" THEN ret(IF btype = "nil" THEN 1 ELSE -1)
             ELSE IF atype = "str" THEN ret(IF btype = "list" THEN -1 ELSE 1)
             ELSE ret(1)
        ELSE IF atype = "num"
        THEN IF sink_num_isnan(a) THEN ret(IF sink_num_isnan(b) THEN 0 ELSE -1)
             ELSE IF sink_num_isnan(b) THEN ret(1)
             ELSE ret(IF a.n < b.n THEN -1 ELSE 1)
        ELSE IF atype = "str"
        THEN LET s1 == c.str_tbl[var_index(a)]
                 s2 == c.str_tbl[var_index(b)]
                 res == memcmp(s1, s2, Min2(Len(s1), Len(s2)))
             IN  IF Len(s1) = 0 THEN ret(IF Len(s2) = 0 THEN 0 ELSE -1)
                 ELSE IF Len(s2) = 0 THEN ret(1)
                 ELSE IF res = 0
                 THEN ret(IF Len(s1) = Len(s2) THEN 0 ELSE IF Len(s1) < Len(s2) THEN -1 ELSE 1)
                 ELSE ret(IF res < 0 THEN -1 ELSE 1)
        ELSE LET idx1 == var_index(a)
                 idx2 == var_index(b)
                 ls1 == c.list_tbl[idx1].vals
                 ls2 == c.list_tbl[idx2].vals
             IN  IF list_int_has(li, idx1) \/ list_int_has(li, idx2)
                 THEN [res |-> -1, failed |-> TRUE, li |-> li]
                 ELSE IF Len(ls1) = 0 THEN ret(IF Len(ls2) = 0 THEN 0 ELSE -1)
                 ELSE IF Len(ls2) = 0 THEN ret(1)
                 ELSE \* list_int_push twice, the loop, list_int_pop twice
                      LET r == CHOOSE x \in {sortlists(c, li \o <<idx1, idx2>>, ls1, ls2, 1)} : TRUE
                      IN  [r EXCEPT !.li = SubSeq(@, 1, Len(@) - 2)]

\* the loop of sortboth over the first minsize values of two lists
sortlists(c, li, ls1, ls2, i) ==
    IF i > Min2(Len(ls1), Len(ls2))
    THEN [res |-> IF Len(ls1) < Len(ls2) THEN -1 ELSE IF Len(ls1) > Len(ls2) THEN 1 ELSE 0,
          failed |-> FALSE, li |-> li]
    ELSE \* the result of the i-th pair decides unless it is 0
         CHOOSE r \in {IF x.res # 0 THEN x ELSE sortlists(c, x.li, ls1, ls2, i + 1) :
                          x \in {sortboth(c, li, ls1[i], ls2[i])}} : TRUE

\* opi_order
opi_order(c, a, b) == sortboth(c, <<>>, a, b)

\* the strings and lists of the context the comparisons run in: two strings with
\* the same bytes, a list in a list in a list; no list holds itself
OrderStrs == <<  <<>>, <<97>>, <<97>>, <<97, 98>>, <<98>>  >>
OrderLists ==
    << <<>>, <<sink_num(1)>>, <<sink_num(1), sink_num(2)>>, <<ListRef(1)>>,
       <<ListRef(3)>>, <<sink_num(1)>> >>
OrderHeap ==
    [str_tbl |-> [i \in 0..(Len(OrderStrs) - 1) |-> OrderStrs[i + 1]],
     str_aloc |-> 0..(Len(OrderStrs) - 1),
     list_tbl |-> [i \in 0..(Len(OrderLists) - 1) |->
                        [vals |-> OrderLists[i + 1], usertype |-> -1, user |-> 0]],
     list_aloc |-> 0..(Len(OrderLists) - 1)]

OrderNums == {sink_num(0), NegZero, sink_num(1), sink_num(-1), sink_num(2), NaNVal(0), NaNVal(1)}
OrderVals ==
    {SINK_NIL} \cup OrderNums
        \cup {StrVal(i) : i \in 0..(Len(OrderStrs) - 1)}
        \cup {ListRef(i) : i \in 0..(Len(OrderLists) - 1)}

\* the pairs of a, b, c the program compares, in turn
OrderPairs == << <<1, 2>>, <<2, 1>>, <<2, 3>>, <<1, 3>> >>

\* OP_ORDER: the result goes to the target; an abort marks the context failed
OpOrder ==
    /\ scr.k < Len(OrderPairs)
    /\ LET X == scr.vals[OrderPairs[scr.k + 1][1]]
           Y == scr.vals[OrderPairs[scr.k + 1][2]]
       IN  \E r \in {opi_order(ctx, X, Y)} :
              /\ scr' = [scr EXCEPT !.k = @ + 1, !.res = Append(@, r.res)]
              /\ ctx' = IF r.failed THEN opi_abort(ctx, "Cannot sort circular lists")
                        ELSE ctx
    /\ UNCHANGED <<prg, valid, waits, control, host, ghost>>

InitOrder ==
    /\ prg = Program(<<>>)
    /\ valid = program_validate(prg)
    /\ ctx = OrderHeap @@ context_pools(prg) @@ context_new(prg)
    /\ waits = [w \in WaitIds |-> FreeWait]
    /\ control = ControlInit
    /\ host = HostInit
    /\ ghost = GhostInit
    /\ scr \in {[mode |-> "order", vals |-> <<a, b, c>>, k |-> 0, res |-> <<>>] :
                    a \in OrderVals, b \in OrderVals, c \in OrderVals}

NextOrder ==
    \/ OpOrder

SpecOrder == InitOrder /\ [][NextOrder]_vars

TypeRank(x) ==
    CASE sink_isnil(x) -> 0 [] sink_isnum(x) -> 1 [] sink_isstr(x) -> 2 [] OTHER -> 3

\* what a total ordering requires of order(a, b), order(b, a), order(b, c) and
\* order(a, c), each of them -1, 0 or 1
OrderLaws(vals, res) ==
    LET ab == res[1]
        ba == res[2]
        bc == res[3]
        ac == res[4]
    IN  /\ ab \in {-1, 0, 1}
        /\ ab = -ba
        /\ (ab <= 0 /\ bc <= 0) => ac <= 0
        /\ (ab <= 0 /\ bc < 0) => ac < 0
        /\ (ab < 0 /\ bc <= 0) => ac < 0
        /\ TypeRank(vals[1]) < TypeRank(vals[2]) => ab = -1

\* C20: order reports for any two values exactly one of a < b, a = b, a > b,
\* with order(a, b) = -order(b, a), transitively, and by type nil before
\* number before string before list.
C20_OrderIsTotal ==
    scr.k = Len(OrderPairs) => (~ctx.failed /\ OrderLaws(scr.vals, scr.res))

\* the same with -0 and lists that hold lists left out
PlainVal(x) ==
    /\ x # NegZero
    /\ sink_islist(x) => \A i \in 1..Len(OrderLists[var_index(x) + 1]) :
                            ~sink_islist(OrderLists[var_index(x) + 1][i])
C20_OrderIsTotalPlain ==
    (scr.k = Len(OrderPairs) /\ \A i \in 1..3 : PlainVal(scr.vals[i]))
        => (~ctx.failed /\ OrderLaws(scr.vals, scr.res))

-----------------------------------------------------------------------------
(* pickle.bin / pickle.val: pk_tobin, opi_pickle_binstr, pk_fmbin,           *)
(* opi_pickle_valstr, opi_pickle_val                                         *)

MaxPickles == 2

\* an integer of 2^31 or more in absolute value, as the 16-bit halves hi, lo of
\* hi * 65536 + lo; smaller integers are sink_num(n)
BigNum(hi, lo) == [t |-> "num", n |-> lo, v |-> <<4, hi>>]

\* a double that is no integer in [-2^32, 2^32) and no NaN, by its 8 bytes
Dbl(bytes) == [t |-> "num", n |-> 0, v |-> <<3>> \o bytes]

\* floor(a.f) == a.f && a.f >= -4294967296.0 && a.f < 4294967296.0
NumIsInt(a) == IF a.v = <<>> THEN TRUE ELSE a.v[1] \in {1, 4}

\* int64_t num = a.f, as its halves
NumHi(a) == IF a.v = <<>> THEN a.n \div 65536 ELSE IF a.v[1] = 4 THEN a.v[2] ELSE 0
NumLo(a) == IF a.v = <<>> THEN a.n % 65536 ELSE IF a.v[1] = 4 THEN a.n ELSE 0

\* sink_num of the integer hi * 65536 + lo
MkNum(hi, lo) ==
    IF hi \in -32768..32767 THEN sink_num(hi * 65536 + lo) ELSE BigNum(hi, lo)

\* a.u of a number pk_tobin writes with 0xF6, least significant byte first
DblBytes(a) ==
    IF sink_num_isnan(a) THEN <<a.v[2], 0, 0, 0, 0, 0, 248, 127>> ELSE Tail(a.v)

\* isnan of the double with the bytes b
BytesNaN(b) ==
    /\ b[8] % 128 = 127 /\ b[7] \div 16 = 15
    /\ (b[7] % 16 # 0 \/ \E i \in 1..6 : b[i] # 0)

\* pk_tobin_vint
pk_tobin_vint(i) ==
    IF i < 128 THEN <<i>>
    ELSE <<128 + ((i \div 16777216) % 128), (i \div 65536) % 256, (i \div 256) % 256, i % 256>>

\* list_int_at: the position of v in ls, from 0, or -1
list_int_at(ls, v) ==
    IF \E i \in 1..Len(ls) : ls[i] = v
    THEN (CHOOSE i \in 1..Len(ls) : ls[i] = v /\ \A j \in 1..(i - 1) : ls[j] # v) - 1
    ELSE -1

\* pk_tobin, case SINK_TYPE_NUM: the bytes pushed on body
pk_tobin_num(a) ==
    LET hi == NumHi(a)
        lo == NumLo(a)
    IN  IF ~NumIsInt(a) THEN <<246>> \o DblBytes(a)
        ELSE IF hi < 0 THEN
            IF hi = -1 /\ lo >= 65280 THEN <<241, lo - 65280>>
            ELSE IF hi = -1 THEN <<243, lo % 256, lo \div 256>>
            ELSE <<245, lo % 256, lo \div 256, (hi + 65536) % 256, (hi + 65536) \div 256>>
        ELSE
            IF hi = 0 /\ lo < 256 THEN <<240, lo>>
            ELSE IF hi = 0 THEN <<242, lo % 256, lo \div 256>>
            ELSE <<244, lo % 256, lo \div 256, hi % 256, hi \div 256>>

\* pk_tobin over st = [li, strs, body]: li the indices of the lists met so far,
\* strs the string table (one entry per distinct content), body the bytes
RECURSIVE pk_tobin(_, _, _)
RECURSIVE pk_tobin_vals(_, _, _)
pk_tobin(c, a, st) ==
    CASE sink_isnil(a) -> [st EXCEPT !.body = @ \o <<247>>]
      [] sink_isnum(a) -> [st EXCEPT !.body = @ \o pk_tobin_num(a)]
      [] sink_isstr(a) ->
            LET s == c.str_tbl[var_index(a)]
                found == list_int_at(st.strs, s)
                sidx == IF found >= 0 THEN found ELSE Len(st.strs)
            IN  [st EXCEPT !.strs = IF found >= 0 THEN @ ELSE Append(@, s),
                           !.body = @ \o <<248>> \o pk_tobin_vint(sidx)]
      [] OTHER ->
            LET idx == var_index(a)
                idxat == list_int_at(st.li, idx)
                ls == c.list_tbl[idx].vals
            IN  IF idxat < 0
                THEN pk_tobin_vals(c, ls,
                        [st EXCEPT !.li = Append(@, idx),
                                   !.body = @ \o <<249>> \o pk_tobin_vint(Len(ls))])
                ELSE [st EXCEPT !.body = @ \o <<250>> \o pk_tobin_vint(idxat)]

pk_tobin_vals(c, vals, st) ==
    IF vals = <<>> THEN st
    ELSE CHOOSE r \in {pk_tobin_vals(c, Tail(vals), t) : t \in {pk_tobin(c, Head(vals), st)}} : TRUE

\* the string table as pk_tobin keeps it: each string after its length
RECURSIVE StrTableBytes(_)
StrTableBytes(strs) ==
    IF strs = <<>> THEN <<>>
    ELSE pk_tobin_vint(Len(Head(strs))) \o Head(strs) \o StrTableBytes(Tail(strs))

\* opi_pickle_binstr: 0x01, the table size, the table, the body
opi_pickle_binstr(c, a) ==
    LET st == CHOOSE r \in {pk_tobin(c, a, [li |-> <<>>, strs |-> <<>>, body |-> <<>>])} : TRUE
    IN  <<1>> \o pk_tobin_vint(Len(st.strs)) \o StrTableBytes(st.strs) \o st.body

\* sink_str_newblobgive: <<the context, the new string>>
sink_str_newblobgive(c, bytes) ==
    LET index == bmp_alloc(c.str_aloc)
    IN  <<[c EXCEPT !.str_aloc = @ \cup {index}, !.str_tbl[index] = bytes], StrVal(index)>>

\* opi_pickle_bin
opi_pickle_bin(c, a) == sink_str_newblobgive(c, opi_pickle_binstr(c, a))

\* pk_fmbin_vint at the 0-based position pos of s: [ok, pos, res]
pk_fmbin_vint(s, pos) ==
    IF Len(s) <= pos THEN [ok |-> FALSE, pos |-> pos, res |-> 0]
    ELSE LET v == s[pos + 1]
         IN  IF v < 128 THEN [ok |-> TRUE, pos |-> pos + 1, res |-> v]
             ELSE IF Len(s) <= pos + 3 THEN [ok |-> FALSE, pos |-> pos + 1, res |-> 0]
             ELSE [ok |-> TRUE, pos |-> pos + 4,
                   res |-> (v - 128) * 16777216 + s[pos + 2] * 65536
                               + s[pos + 3] * 256 + s[pos + 4]]

\* the bytes of s from the 0-based position pos, n of them
BytesAt(s, pos, n) == [i \in 1..n |-> s[pos + i]]

\* pk_fmbin, the number commands 0xF0..0xF6 at st.pos (after the command byte);
\* wraps: whether (int)byte << 24 with the byte's top bit set, which is undefined,
\* gives the negative two's-complement value or the value of the unsigned shift
pk_fmbin_num(cmd, s, st, wraps) ==
    LET p == st.pos
        need == CASE cmd \in {240, 241} -> 1 [] cmd \in {242, 243} -> 2
                  [] cmd \in {244, 245} -> 4 [] OTHER -> 8
        b == BytesAt(s, p, need)
        val == CASE cmd = 240 -> sink_num(b[1])
                 [] cmd = 241 -> sink_num(b[1] - 256)
                 [] cmd = 242 -> sink_num(b[1] + 256 * b[2])
                 [] cmd = 243 -> sink_num(b[1] + 256 * b[2] - 65536)
                 [] cmd = 244 ->
                        IF b[4] >= 128 /\ wraps
                        THEN MkNum(b[3] + 256 * b[4] - 65536, b[1] + 256 * b[2])
                        ELSE MkNum(b[3] + 256 * b[4], b[1] + 256 * b[2])
                 [] cmd = 245 -> MkNum(b[3] + 256 * b[4] - 65536, b[1] + 256 * b[2])
                 [] OTHER -> IF BytesNaN(b) THEN NaNVal(0) ELSE Dbl(b)
    IN  IF p + need > Len(s) THEN [st EXCEPT !.ok = FALSE]
        ELSE [st EXCEPT !.pos = p + need, !.res = val]

\* pk_fmbin over st = [c, pos, li, ok, res]; strs are the strings of the table
RECURSIVE pk_fmbin(_, _, _, _)
RECURSIVE pk_fmbin_vals(_, _, _, _, _, _)
pk_fmbin(st, s, strs, wraps) ==
    IF st.pos >= Len(s) THEN [st EXCEPT !.ok = FALSE]
    ELSE
    LET cmd == s[st.pos + 1]
        st1 == [st EXCEPT !.pos = @ + 1]
    IN  CASE cmd \in 240..246 -> pk_fmbin_num(cmd, s, st1, wraps)
          [] cmd = 247 -> [st1 EXCEPT !.res = SINK_NIL]
          [] cmd = 248 ->
                LET id == pk_fmbin_vint(s, st1.pos)
                IN  IF ~id.ok \/ id.res >= Len(strs) THEN [st1 EXCEPT !.ok = FALSE, !.pos = id.pos]
                    ELSE [st1 EXCEPT !.pos = id.pos, !.res = strs[id.res + 1]]
          [] cmd = 249 ->
                LET sz == pk_fmbin_vint(s, st1.pos)
                    \* memset(vals, 0, ...): every element starts as the number 0
                    nl == sink_list_newblob(st1.c, [i \in 1..sz.res |-> sink_num(0)])
                    st2 == [st1 EXCEPT !.pos = sz.pos, !.c = nl[1],
                                       !.li = Append(@, var_index(nl[2]))]
                IN  IF ~sz.ok THEN [st1 EXCEPT !.ok = FALSE, !.pos = sz.pos]
                    ELSE CHOOSE r \in {[t EXCEPT !.res = IF t.ok THEN nl[2] ELSE @] :
                            t \in {pk_fmbin_vals(st2, s, strs, wraps, var_index(nl[2]), sz.res)}} : TRUE
          [] cmd = 250 ->
                LET id == pk_fmbin_vint(s, st1.pos)
                IN  IF ~id.ok \/ id.res >= Len(st1.li) THEN [st1 EXCEPT !.ok = FALSE, !.pos = id.pos]
                    ELSE [st1 EXCEPT !.pos = id.pos, !.res = ListRef(st1.li[id.res + 1])]
          [] OTHER -> [st1 EXCEPT !.ok = FALSE]

\* the loop of case 0xF9: elements n.. of the list idx, n counted from the end
pk_fmbin_vals(st, s, strs, wraps, idx, n) ==
    IF n = 0 THEN st
    ELSE LET i == Len(st.c.list_tbl[idx].vals) - n + 1
         IN  CHOOSE r \in
                {IF ~t.ok THEN t
                 ELSE pk_fmbin_vals([t EXCEPT !.c.list_tbl[idx].vals =
                                        SubSeq(@, 1, i - 1) \o <<t.res>> \o SubSeq(@, i + 1, Len(@))],
                                    s, strs, wraps, idx, n - 1) :
                    t \in {pk_fmbin(st, s, strs, wraps)}} : TRUE

\* the loop of opi_pickle_valstr that makes the strings of the table:
\* r = [c, pos, ok, strs]
RECURSIVE PickleTable(_, _, _)
PickleTable(r, s, n) ==
    IF n = 0 \/ ~r.ok THEN r
    ELSE LET sz == pk_fmbin_vint(s, r.pos)
         IN  IF ~sz.ok \/ sz.pos + sz.res > Len(s) THEN [r EXCEPT !.ok = FALSE]
             ELSE CHOOSE q \in
                    {PickleTable([r EXCEPT !.c = ns[1], !.pos = sz.pos + sz.res,
                                           !.strs = Append(@, ns[2])], s, n - 1) :
                        ns \in {sink_str_newblobgive(r.c, BytesAt(s, sz.pos, sz.res))}} : TRUE

\* opi_pickle_valstr: [c, ok, res]
opi_pickle_valstr(c, s, wraps) ==
    IF Len(s) < 1 \/ s[1] # 1 THEN [c |-> c, ok |-> FALSE, res |-> SINK_NIL]
    ELSE
    LET n == pk_fmbin_vint(s, 1)
        tab == CHOOSE q \in {PickleTable([c |-> c, pos |-> n.pos, ok |-> n.ok, strs |-> <<>>],
                                         s, n.res)} : TRUE
        r == CHOOSE q \in {pk_fmbin([c |-> tab.c, pos |-> tab.pos, li |-> <<>>, ok |-> TRUE,
                                     res |-> SINK_NIL], s, tab.strs, wraps)} : TRUE
    IN  IF ~n.ok \/ ~tab.ok THEN [c |-> tab.c, ok |-> FALSE, res |-> SINK_NIL]
        ELSE [c |-> r.c, ok |-> r.ok, res |-> IF r.ok THEN r.res ELSE SINK_NIL]

\* opi_pickle_val for a value that is no string or a string of binary pickle
\* data: [c, res]
opi_pickle_val(c, a, wraps) ==
    IF ~sink_isstr(a) \/ Len(c.str_tbl[var_index(a)]) < 1
    THEN [c |-> opi_abort(c, "Invalid pickle data"), res |-> SINK_NIL]
    ELSE LET r == CHOOSE q \in {opi_pickle_valstr(c, c.str_tbl[var_index(a)], wraps)} : TRUE
         IN  IF r.ok THEN [c |-> r.c, res |-> r.res]
             ELSE [c |-> opi_abort(r.c, "Invalid pickle data"), res |-> SINK_NIL]

\* the strings and lists of the context before the first pickle: two strings
\* with the same bytes, a list held twice by another, a list holding itself and
\* two lists holding each other
PkStrs == <<  <<97>>, <<97>>, <<98, 99>>  >>
PkLists ==
    << <<sink_num(1), StrVal(0)>>,
       <<ListRef(1)>>,
       <<ListRef(0), ListRef(0)>>,
       <<ListRef(4), SINK_NIL>>,
       <<ListRef(3), StrVal(2), ListRef(4)>>,
       <<>>,
       <<ListRef(2), ListRef(1), StrVal(1)>>,
       <<sink_num(300), BigNum(32768, 1)>> >>
PkHeap ==
    [str_tbl |-> [i \in 0..(Len(PkStrs) + 4 * MaxPickles - 1) |->
                        IF i < Len(PkStrs) THEN PkStrs[i + 1] ELSE <<>>],
     str_aloc |-> 0..(Len(PkStrs) - 1),
     list_tbl |-> [i \in 0..(Len(PkLists) + 4 * MaxPickles - 1) |->
                        IF i < Len(PkLists)
                        THEN [vals |-> PkLists[i + 1], usertype |-> -1, user |-> 0]
                        ELSE ListNone],
     list_aloc |-> 0..(Len(PkLists) - 1)]

PkNums ==
    {sink_num(0), NegZero, sink_num(1), sink_num(255), sink_num(256), sink_num(65535),
     sink_num(65536), sink_num(2147483647), BigNum(32768, 0), BigNum(65535, 65535),
     sink_num(-1), sink_num(-256), sink_num(-257), sink_num(-65536), sink_num(-65537),
     sink_num((-32768) * 65536), BigNum(-32769, 65535), BigNum(-65536, 0),
     NaNVal(0), Dbl(<<0, 0, 0, 0, 0, 0, 224, 63>>), Dbl(<<0, 0, 0, 0, 0, 0, 240, 65>>)}

\* the values a pickle command can be given: numbers, nil, and the strings and
\* lists of the context
PkVals(c) ==
    {SINK_NIL} \cup PkNums \cup {StrVal(i) : i \in c.str_aloc}
        \cup {ListRef(i) : i \in c.list_aloc}

PkNone == [op |-> "none", a |-> SINK_NIL, of |-> <<>>, X |-> SINK_NIL]

\* OP_PICKLE_BIN: X = opi_pickle_bin(ctx, a); scr.pk remembers what each
\* pickle was made of
OpPickleBin ==
    /\ scr.steps < MaxPickles /\ ~ctx.failed
    /\ \E a \in PkVals(ctx) : \E r \in {opi_pickle_bin(ctx, a)} :
          /\ ctx' = r[1]
          /\ scr' = [scr EXCEPT !.steps = @ + 1,
                                !.pk = (var_index(r[2]) :> a) @@ @,
                                !.last = [op |-> "bin", a |-> a, of |-> <<>>, X |-> r[2]]]
    /\ UNCHANGED <<prg, valid, waits, control, host, ghost>>

\* OP_PICKLE_VAL: X = opi_pickle_val(ctx, a), for a pickle made before or nil
OpPickleVal ==
    /\ scr.steps < MaxPickles /\ ~ctx.failed
    /\ \E a \in {StrVal(i) : i \in DOMAIN scr.pk} \cup {SINK_NIL} : \E wraps \in BOOLEAN :
       \E r \in {opi_pickle_val(ctx, a, wraps)} :
          /\ ctx' = r.c
          /\ scr' = [scr EXCEPT !.steps = @ + 1,
                                !.last = [op |-> "val", a |-> a,
                                          of |-> IF sink_isstr(a) THEN <<scr.pk[var_index(a)]>>
                                                 ELSE <<>>,
                                          X |-> r.res]]
    /\ UNCHANGED <<prg, valid, waits, control, host, ghost>>

\* the decimal digits of the integer hi * 65536 + lo >= 0, as bytes
RECURSIVE Digits(_, _)
Digits(hi, lo) ==
    LET rest == (hi % 10) * 65536 + lo
    IN  IF hi = 0 /\ lo < 10 THEN <<48 + lo>>
        ELSE Digits(hi \div 10, rest \div 10) \o <<48 + (rest % 10)>>

\* numtostr: "%.16g" of an integer below 2^32 in absolute value or of a NaN,
\* with "-0" turned into "0"
numtostr(a) ==
    LET hi == NumHi(a)
        lo == NumLo(a)
    IN  IF sink_num_isnan(a) THEN <<110, 97, 110>>
        ELSE IF hi >= 0 THEN Digits(hi, lo)
        ELSE IF lo = 0 THEN <<45>> \o Digits(-hi, 0)
        ELSE <<45>> \o Digits(-hi - 1, 65536 - lo)

\* pk_isjson on the text of a number: an optional sign, then digits
pk_isjson(s) ==
    LET d == IF s # <<>> /\ s[1] = 45 THEN Tail(s) ELSE s
    IN  d # <<>> /\ \A i \in 1..Len(d) : d[i] \in 48..57

toNibble(n) == IF n < 10 THEN 48 + n ELSE 65 + (n - 10)

\* pk_tojson, case SINK_TYPE_STR: one byte of the string, escaped
JsonByte(b) ==
    CASE b \in {34, 92} -> <<92, b>>
      [] b = 8 -> <<92, 98>>
      [] b = 12 -> <<92, 102>>
      [] b = 10 -> <<92, 110>>
      [] b = 13 -> <<92, 114>>
      [] b = 9 -> <<92, 116>>
      [] b < 32 \/ b >= 128 -> <<92, 117, 48, 48, toNibble(b \div 16), toNibble(b % 16)>>
      [] OTHER -> <<b>>

RECURSIVE JsonBytes(_)
JsonBytes(s) == IF s = <<>> THEN <<>> ELSE JsonByte(Head(s)) \o JsonBytes(Tail(s))

JsonNull == <<110, 117, 108, 108>>


\* pk_tojson: [ok, s]; li is the stack of the lists being written
RECURSIVE pk_tojson(_, _, _)
RECURSIVE pk_tojson_vals(_, _, _, _)
pk_tojson(c, a, li) ==
    CASE sink_isnil(a) -> [ok |-> TRUE, s |-> JsonNull]
      [] sink_isnum(a) ->
            [ok |-> TRUE, s |-> IF pk_isjson(numtostr(a)) THEN numtostr(a) ELSE JsonNull]
      [] sink_isstr(a) ->
            [ok |-> TRUE, s |-> <<34>> \o JsonBytes(c.str_tbl[var_index(a)]) \o <<34>>]
      [] OTHER ->
            IF list_int_has(li, var_index(a)) THEN [ok |-> FALSE, s |-> <<>>]
            ELSE CHOOSE r \in
                    {[ok |-> t.ok, s |-> IF t.ok THEN <<91>> \o t.s \o <<93>> ELSE <<>>] :
                        t \in {pk_tojson_vals(c, c.list_tbl[var_index(a)].vals,
                                              Append(li, var_index(a)), 0)}} : TRUE

\* the loop over the elements, i of them written: [ok, s]
pk_tojson_vals(c, vals, li, i) ==
    IF vals = <<>> THEN [ok |-> TRUE, s |-> <<>>]
    ELSE CHOOSE r \in
            {IF ~t.ok THEN t
             ELSE CHOOSE q \in
                    {[ok |-> u.ok,
                      s |-> IF u.ok THEN (IF i = 0 THEN <<>> ELSE <<44>>) \o t.s \o u.s
                            ELSE <<>>] :
                        u \in {pk_tojson_vals(c, Tail(vals), li, i + 1)}} : TRUE :
                t \in {pk_tojson(c, Head(vals), li)}} : TRUE

\* opi_pickle_json that gives nil for a circular value without failing
C22_JsonNilOnCycle(c, a) ==
    LET r == CHOOSE t \in {pk_tojson(c, a, <<>>)} : TRUE
        ns == sink_str_newblobgive(c, r.s)
    IN  IF ~r.ok THEN [c |-> c, res |-> SINK_NIL] ELSE [c |-> ns[1], res |-> ns[2]]

\* opi_pickle_json: [c, res]
opi_pickle_json(c, a) ==
    LET r == CHOOSE t \in {pk_tojson(c, a, <<>>)} : TRUE
        ns == sink_str_newblobgive(c, r.s)
    IN  IF ~r.ok
        THEN [c |-> IF c.failed THEN c
                    ELSE opi_abort(c, "Cannot pickle circular structure to JSON format"),
              res |-> SINK_NIL]
        ELSE [c |-> ns[1], res |-> ns[2]]

\* OP_PICKLE_JSON: X = opi_pickle_json(ctx, a)
OpPickleJson ==
    /\ scr.steps < MaxPickles /\ ~ctx.failed
    /\ \E a \in {x \in PkVals(ctx) : sink_isnum(x) => (NumIsInt(x) \/ sink_num_isnan(x))} :
       \E r \in {opi_pickle_json(ctx, a)} :
          /\ ctx' = r.c
          /\ scr' = [scr EXCEPT !.steps = @ + 1,
                                !.last = [op |-> "json", a |-> a, of |-> <<>>, X |-> r.res]]
    /\ UNCHANGED <<prg, valid, waits, control, host, ghost>>

InitPickle ==
    /\ prg = Program(<<>>)
    /\ valid = program_validate(prg)
    /\ ctx = PkHeap @@ context_pools(prg) @@ context_new(prg)
    /\ waits = [w \in WaitIds |-> FreeWait]
    /\ control = ControlInit
    /\ host = HostInit
    /\ ghost = GhostInit
    /\ scr = [mode |-> "pickle", steps |-> 0, pk |-> <<>>, last |-> PkNone]

NextPickle ==
    \/ OpPickleBin
    \/ OpPickleVal
    \/ OpPickleJson

SpecPickle == InitPickle /\ [][NextPickle]_vars


\* the lists reachable from the value a, by index
ListsFrom(c, a) == {var_index(x) : x \in {y \in ReachFrom(c, {a}) : sink_islist(y)}}

\* x and y are the same value under the correspondence f of lists: the same
\* number or nil, strings of the same bytes, or lists that correspond
SameVal(c, f, x, y) ==
    CASE sink_islist(x) -> sink_islist(y) /\ f[var_index(x)] = var_index(y)
      [] sink_isstr(x) -> sink_isstr(y) /\ c.str_tbl[var_index(x)] = c.str_tbl[var_index(y)]
      [] OTHER -> x = y

\* a and b are structurally identical: a one-to-one correspondence between the
\* lists reachable from a and those reachable from b that maps a to b and
\* every element to the element at the same position
Iso(c, a, b) ==
    LET A == ListsFrom(c, a)
        B == ListsFrom(c, b)
    IN  \E f \in [A -> B] :
            /\ \A l1, l2 \in A : f[l1] = f[l2] => l1 = l2
            /\ \A l \in B : \E k \in A : f[k] = l
            /\ SameVal(c, f, a, b)
            /\ \A l \in A :
                  /\ Len(c.list_tbl[l].vals) = Len(c.list_tbl[f[l]].vals)
                  /\ \A i \in 1..Len(c.list_tbl[l].vals) :
                        SameVal(c, f, c.list_tbl[l].vals[i], c.list_tbl[f[l]].vals[i])

\* some list reachable from a is reachable from its own elements
Cyclic(c, a) ==
    \E l \in ListsFrom(c, a) :
        ListRef(l) \in ReachFrom(c, {c.list_tbl[l].vals[i] : i \in 1..Len(c.list_tbl[l].vals)})

\* some list is reached from a along two ways
Shared(c, a) ==
    \E l \in ListsFrom(c, a) :
        Cardinality({<<k, i>> \in ListsFrom(c, a) \X (1..3) :
                        /\ i <= Len(c.list_tbl[k].vals)
                        /\ c.list_tbl[k].vals[i] = ListRef(l)}) > 1

\* the numbers reachable from a
NumsFrom(c, a) == {x \in ReachFrom(c, {a}) : sink_isnum(x)}

\* C21: unpickling the binary pickle of a value gives a value structurally
\* identical to the original, for acyclic and for cyclic values, every cycle
\* and every shared list reproduced (pickle.val of pickle.bin of a value `of`
\* does not fail and its result X is isomorphic to `of`).
C21_BinRoundTrip ==
    (scr.last.op = "val" /\ scr.last.of # <<>>)
        => (~ctx.failed /\ Iso(ctx, scr.last.of[1], scr.last.X))

\* the numbers pickle.bin and pickle.val carry over unchanged: all but -0 and
\* the integers from 2^31 to 2^32 - 1
PkExact(x) == x # NegZero /\ ~(x.v # <<>> /\ x.v[1] = 4 /\ x.v[2] >= 32768)

\* C21 for values that hold no number written as 0xF4 with the top bit set and
\* no negative zero: the copy is structurally identical, cycles and shared
\* lists included.
C21_BinRoundTripExact ==
    (scr.last.op = "val" /\ scr.last.of # <<>>
        /\ \A x \in NumsFrom(ctx, scr.last.of[1]) : PkExact(x))
        => (~ctx.failed /\ Iso(ctx, scr.last.of[1], scr.last.X))

\* a value with a cycle and a list held twice, copied to lists of its own
C21_Witness ==
    /\ scr.last.op = "val" /\ scr.last.of # <<>>
    /\ sink_islist(scr.last.of[1])
    /\ Cyclic(ctx, scr.last.of[1]) /\ Shared(ctx, scr.last.of[1])
    /\ Cyclic(ctx, scr.last.X) /\ Shared(ctx, scr.last.X)
    /\ ListsFrom(ctx, scr.last.X) \cap ListsFrom(ctx, scr.last.of[1]) = {}


\* the step is a pickle.json command
JsonStep == scr'.steps = scr.steps + 1 /\ scr'.last.op = "json"

\* C22: pickling to JSON refuses cycles: for a value that contains a list
\* reachable from itself the command returns (nil) with the context failed by
\* "Cannot pickle circular structure to JSON format", and no string is made.
C22_JsonRefusesCycles ==
    [][(JsonStep /\ Cyclic(ctx, scr'.last.a))
        => (/\ ctx'.failed
            /\ ctx'.err = "Cannot pickle circular structure to JSON format"
            /\ sink_isnil(scr'.last.X)
            /\ ctx'.str_aloc = ctx.str_aloc
            /\ ctx'.str_tbl = ctx.str_tbl)]_vars

\* refused: a list whose cycle lies below lists that are on no cycle
C22_Witness ==
    /\ scr.last.op = "json" /\ ctx.failed
    /\ sink_islist(scr.last.a)
    /\ ListRef(var_index(scr.last.a)) \notin
            ReachFrom(ctx, {ctx.list_tbl[var_index(scr.last.a)].vals[i] :
                                i \in 1..Len(ctx.list_tbl[var_index(scr.last.a)].vals)})
    /\ Cyclic(ctx, scr.last.a) /\ Shared(ctx, scr.last.a)

-----------------------------------------------------------------------------
(* Numeric operators over lists: arget, arsize, oper_typelist, oper_bin,     *)
(* opi_binop (OP_NUM_ADD, OP_NUM_SUB)                                        *)

\* arget that repeats the last value of a list that is too short
C23_ArgetLast(c, ar, index) ==
    IF sink_islist(ar)
    THEN LET ls == c.list_tbl[var_index(ar)].vals
         IN  IF ls = <<>> THEN sink_num(0)
             ELSE IF index >= Len(ls) THEN ls[Len(ls)] ELSE ls[index + 1]
    ELSE ar

\* arget: index counted from 0
arget(c, ar, index) ==
    IF sink_islist(ar)
    THEN LET ls == c.list_tbl[var_index(ar)].vals
         IN  IF index >= Len(ls) THEN sink_num(0) ELSE ls[index + 1]
    ELSE ar

\* arsize
arsize(c, ar) == IF sink_islist(ar) THEN Len(c.list_tbl[var_index(ar)].vals) ELSE 1

\* oper_typelist with the mask LT_ALLOWNUM
oper_typelist(c, a) ==
    IF sink_islist(a)
    THEN \A i \in 1..Len(c.list_tbl[var_index(a)].vals) :
            sink_isnum(c.list_tbl[var_index(a)].vals[i])
    ELSE sink_isnum(a)

\* binop_num_add, binop_num_sub on integers
binop_num(f_binary, a, b) ==
    IF f_binary = "add" THEN sink_num(a.n + b.n) ELSE sink_num(a.n - b.n)

\* oper_bin: <<the context, the result>>
oper_bin(c, a, b, f_binary) ==
    IF sink_islist(a) \/ sink_islist(b)
    THEN LET ma == arsize(c, a)
             mb == arsize(c, b)
             m == IF ma > mb THEN ma ELSE mb
         IN  sink_list_newblob(c, [i \in 1..m |->
                    binop_num(f_binary, arget(c, a, i - 1), arget(c, b, i - 1))])
    ELSE <<c, binop_num(f_binary, a, b)>>

\* opi_binop
opi_binop(c, a, b, f_binary) ==
    IF ~oper_typelist(c, a) \/ ~oper_typelist(c, b)
    THEN <<opi_abort(c, "Expecting number or list of numbers"), SINK_NIL>>
    ELSE oper_bin(c, a, b, f_binary)

OperLists ==
    << <<>>,
       <<sink_num(4)>>,
       <<sink_num(1), sink_num(2)>>,
       <<sink_num(5), sink_num(6), sink_num(7)>>,
       <<sink_num(1), SINK_NIL>>,
       <<sink_num(10), sink_num(20), sink_num(30)>> >>
OperHeap ==
    [str_tbl |-> [i \in 0..0 |-> <<97>>],
     str_aloc |-> {0},
     list_tbl |-> [i \in 0..Len(OperLists) |->
                        IF i < Len(OperLists)
                        THEN [vals |-> OperLists[i + 1], usertype |-> -1, user |-> 0]
                        ELSE ListNone],
     list_aloc |-> 0..(Len(OperLists) - 1)]
OperVals ==
    {SINK_NIL, sink_num(0), sink_num(3), sink_num(-2), StrVal(0)}
        \cup {ListRef(i) : i \in 0..(Len(OperLists) - 1)}

\* OP_NUM_ADD, OP_NUM_SUB: X = opi_binop(ctx, a, b, ...)
OpNumBinop ==
    /\ ~scr.done
    /\ \E f_binary \in {"add", "sub"} : \E r \in {opi_binop(ctx, scr.a, scr.b, f_binary)} :
          /\ ctx' = r[1]
          /\ scr' = [scr EXCEPT !.done = TRUE, !.op = f_binary, !.X = r[2]]
    /\ UNCHANGED <<prg, valid, waits, control, host, ghost>>

InitOper ==
    /\ prg = Program(<<>>)
    /\ valid = program_validate(prg)
    /\ ctx = OperHeap @@ context_pools(prg) @@ context_new(prg)
    /\ waits = [w \in WaitIds |-> FreeWait]
    /\ control = ControlInit
    /\ host = HostInit
    /\ ghost = GhostInit
    /\ scr \in {[mode |-> "oper", a |-> a, b |-> b, done |-> FALSE, op |-> "none",
                 X |-> SINK_NIL] : a \in OperVals, b \in OperVals}

NextOper ==
    \/ OpNumBinop

SpecOper == InitOper /\ [][NextOper]_vars

\* the elements of an operand that passed the type test, a scalar as one element
Elems(c, a) == IF sink_islist(a) THEN c.list_tbl[var_index(a)].vals ELSE <<a>>

\* the operand at position i of m when it is broadcast: a scalar at every
\* position, a list by its elements, its missing positions as `fill`
Broadcast(c, a, i, fill) ==
    IF ~sink_islist(a) THEN a
    ELSE IF i <= Len(Elems(c, a)) THEN Elems(c, a)[i]
    ELSE fill

LastOf(c, a) == IF Elems(c, a) = <<>> THEN sink_num(0) ELSE Elems(c, a)[Len(Elems(c, a))]

\* the list operation ran: a list on either side and both operands numeric
ListCase ==
    /\ scr.done /\ (sink_islist(scr.a) \/ sink_islist(scr.b))
    /\ oper_typelist(ctx, scr.a) /\ oper_typelist(ctx, scr.b)

MaxLen2(c, a, b) == IF arsize(c, a) > arsize(c, b) THEN arsize(c, a) ELSE arsize(c, b)

\* C23: a numeric operation with a list on either side gives an element-wise
\* list of the maximum of the operand lengths, a scalar broadcast to that
\* length and the positions missing from a shorter list taken from that
\* list's last value.
C23_BroadcastLast ==
    ListCase =>
        /\ ~ctx.failed /\ sink_islist(scr.X)
        /\ Len(Elems(ctx, scr.X)) = MaxLen2(ctx, scr.a, scr.b)
        /\ \A i \in 1..Len(Elems(ctx, scr.X)) :
              Elems(ctx, scr.X)[i] =
                  binop_num(scr.op, Broadcast(ctx, scr.a, i, LastOf(ctx, scr.a)),
                                    Broadcast(ctx, scr.b, i, LastOf(ctx, scr.b)))

\* C23 as the code has it: the result is a new list of the maximum of the
\* operand lengths, a scalar counting as length 1 and standing at every
\* position, and the positions missing from a shorter list are the number 0.
C23_BroadcastZero ==
    ListCase =>
        /\ ~ctx.failed /\ sink_islist(scr.X)
        /\ var_index(scr.X) \notin {var_index(x) : x \in {y \in {scr.a, scr.b} : sink_islist(y)}}
        /\ Len(Elems(ctx, scr.X)) = MaxLen2(ctx, scr.a, scr.b)
        /\ \A i \in 1..Len(Elems(ctx, scr.X)) :
              Elems(ctx, scr.X)[i] =
                  binop_num(scr.op, Broadcast(ctx, scr.a, i, sink_num(0)),
                                    Broadcast(ctx, scr.b, i, sink_num(0)))

\* two lists of different lengths, neither empty, were subtracted
C23_Witness ==
    /\ ListCase /\ scr.op = "sub"
    /\ sink_islist(scr.a) /\ sink_islist(scr.b)
    /\ 0 < arsize(ctx, scr.a) /\ arsize(ctx, scr.a) < arsize(ctx, scr.b)
    /\ Len(Elems(ctx, scr.X)) = arsize(ctx, scr.b)

-----------------------------------------------------------------------------
(* Validated programs: entering command bodies, frames of lexical levels     *)

\* C24: in a program that passed validation, whenever OP_CMDTAIL executes the
\* call stack is not empty: a command body is entered only through a call of
\* its cmdhead, never by falling into it or by a jump from outside the body
\* (no run pops a call record off the empty call stack).
C24_CmdTailHasCaller ==
    valid => ghost.fault # "callstk"

\* C25: in a program that passed validation, whenever an instruction executes,
\* every (frame, slot) operand names a lexical level that has a live frame, and
\* a call never enters a command whose enclosing levels have no live frame
\* (no instruction reads or writes a frame that is NULL, and every level up to
\* lex_index has a frame).
C25_OperandFramesLive ==
    valid => (/\ ghost.fault # "frame"
              /\ \A l \in 0..ctx.lex_index : FrameLive(ctx, l))

-----------------------------------------------------------------------------
(* Waits: pins of results, runs during a suspension                          *)

\* the waits in use that hold a result context_gcpin keeps a pin for
PinningWaits ==
    {i \in 1..Len(ctx.wait_pending) :
        /\ waits[ctx.wait_pending[i]].has_result
        /\ (sink_isstr(waits[ctx.wait_pending[i]].result)
                \/ sink_islist(waits[ctx.wait_pending[i]].result))}

\* C26: when a host I/O or native call returns a wait that is already fulfilled
\* (sink_done), the pin on its result is removed once the VM has stored the
\* result in the target register, so completed host calls never accumulate
\* pins (every pin belongs to a wait that is still in use and holds a result).
C26_DonePinsReleased ==
    Len(ctx.pinned) = Cardinality(PinningWaits)


\* the waits the context is suspended on: the continuation of the VM attached,
\* no result yet
Awaited ==
    {w \in WaitIds : /\ waits[w].has_then /\ ~waits[w].has_result
                     /\ waits[w].then.f_then = "context_run_then"}

\* the wait of the run that is suspended: in use, without a result, not fired
OrigRunPending ==
    /\ Cardinality(Awaited) = 1
    /\ \A w \in Awaited :
          /\ \E i \in 1..Len(ctx.wait_pending) : ctx.wait_pending[i] = waits[w].then.user
          /\ ~waits[waits[w].then.user].has_result
          /\ ghost.fired[waits[w].then.user] = 0

\* C27: a run issued while the context is suspended on a pending wait executes
\* no opcode and reports ASYNC, and leaves the suspension as it is: the target
\* register, the continuation, the program counter and the registers are
\* unchanged, the wait of the original run stays without a result until the
\* awaited result arrives, and no wait completes more than once.
C27_RunWhileSuspended ==
    /\ [][(host'.runs = host.runs + 1 /\ ctx.async) =>
            /\ ghost'.execd = ghost.execd
            /\ control'.at = "host"
            /\ host'.nres = host.nres + 1
            /\ host'.last = SINK_RUN_ASYNC
            /\ ctx'.async
            /\ ctx'.async_frame = ctx.async_frame
            /\ ctx'.async_index = ctx.async_index
            /\ ctx'.pc = ctx.pc
            /\ ctx'.lex_stk = ctx.lex_stk
            /\ ctx'.call_stk = ctx.call_stk
            /\ \A w \in Awaited : waits'[w] = waits[w]
            /\ \A w \in Awaited : waits'[waits[w].then.user] = waits[waits[w].then.user]]_vars
    /\ [](ctx.async => OrigRunPending)
    /\ [](\A w \in WaitIds : ghost.fired[w] <= 1)

\* a run was made during the suspension, the result arrived afterwards, and the
\* program went on and passed: every run has given the host its one result
C27_Witness ==
    /\ ghost.entry = "WAITING"
    /\ ghost.resumed
    /\ ctx.passed
    /\ control.at = "host"
    /\ host.runs >= 2
    /\ host.nres = host.runs

-----------------------------------------------------------------------------
(* The code generator's labels and frames: label_new, label_refresh,         *)
(* label_jump, label_call, label_returntail, label_declare, symtbl_pushFrame, *)
(* symtbl_popScope, symtbl_popFrame, and the statements that use them         *)

MaxStmts == 5
MaxLabels == 4

\* label_new: no position, no rewrites; name 0 is NULL (label_newstr)
label_new(name) == [name |-> name, pos |-> -1, rewrites |-> <<>>]

\* the four bytes label_refresh writes at the 0-based position index
WriteLoc(ops, index, pos) ==
    [ops EXCEPT ![index + 1] = pos % 256,
                ![index + 2] = (pos \div 256) % 256,
                ![index + 3] = (pos \div 65536) % 256,
                ![index + 4] = (pos \div 16777216) % 256]

\* label_refresh: the rewrites from number start (counted from 0) on
RECURSIVE label_refresh(_, _, _)
label_refresh(lbl, ops, start) ==
    IF start >= Len(lbl.rewrites) THEN ops
    ELSE label_refresh(lbl, WriteLoc(ops, lbl.rewrites[start + 1], lbl.pos), start + 1)

\* the end of every label_jump, label_call, ...: the instruction has been
\* appended with 0xFFFFFFFF, its location bytes are back bytes from the end
LabelSite(s, l, instr, back) ==
    LET ops1 == s.ops \o instr
        lbl == [s.labels[l] EXCEPT !.rewrites = Append(@, Len(ops1) - back)]
    IN  [s EXCEPT !.labels[l] = lbl,
                  !.ops = IF lbl.pos >= 0
                          THEN label_refresh(lbl, ops1, Len(lbl.rewrites) - 1)
                          ELSE ops1]

label_jump(s, l) == LabelSite(s, l, <<OP_JUMP, 255, 255, 255, 255>>, 4)
label_jumpfalse(s, l, src) ==
    LabelSite(s, l, <<OP_JUMPFALSE, src[1], src[2], 255, 255, 255, 255>>, 4)
label_call(s, l, ret, argcount) ==
    LabelSite(s, l, <<OP_CALL, ret[1], ret[2], 255, 255, 255, 255, argcount>>, 5)
label_returntail(s, l, argcount) ==
    LabelSite(s, l, <<OP_RETURNTAIL, 255, 255, 255, 255, argcount>>, 5)

\* label_declare that sets the position and patches nothing
C28_DeclareNoRefresh(s, l) == [s EXCEPT !.labels[l].pos = Len(s.ops)]

\* label_declare
label_declare(s, l) ==
    LET lbl == [s.labels[l] EXCEPT !.pos = Len(s.ops)]
    IN  [s EXCEPT !.labels[l] = lbl, !.ops = label_refresh(lbl, s.ops, 0)]

\* symtbl_pushFrame: a frame and its scope
symtbl_pushFrame(s) ==
    [s EXCEPT !.fr = Append(@, [lbls |-> <<>>, made |-> {}]),
              !.sc = Append(@, [declares |-> <<>>])]

\* symtbl_popScope: [s, err]
symtbl_popScope(s) ==
    IF Len(s.sc[Len(s.sc)].declares) > 0 THEN [s |-> s, err |-> "Failed to define"]
    ELSE [s |-> [s EXCEPT !.sc = SubSeq(@, 1, Len(@) - 1)], err |-> "NULL"]

\* symtbl_popFrame that does not look at the labels
C29_PopFrameNoCheck(s) ==
    LET r == symtbl_popScope(s)
    IN  IF r.err # "NULL" THEN r
        ELSE [s |-> [r.s EXCEPT !.fr = SubSeq(@, 1, Len(@) - 1)], err |-> "NULL"]

\* symtbl_popFrame: [s, err]
symtbl_popFrame(s) ==
    LET r == symtbl_popScope(s)
        lbls == s.fr[Len(s.fr)].lbls
    IN  IF r.err # "NULL" THEN r
        ELSE IF \E i \in 1..Len(lbls) : s.labels[lbls[i]].pos < 0
        THEN [s |-> r.s, err |-> "Missing label"]
        ELSE [s |-> [r.s EXCEPT !.fr = SubSeq(@, 1, Len(@) - 1)], err |-> "NULL"]

\* the label with the given name among those of the current frame, or 0
FrameLabel(s, name) ==
    LET lbls == s.fr[Len(s.fr)].lbls
    IN  IF \E i \in 1..Len(lbls) : s.labels[lbls[i]].name = name
        THEN lbls[CHOOSE i \in 1..Len(lbls) :
                    /\ s.labels[lbls[i]].name = name
                    /\ \A j \in 1..(i - 1) : s.labels[lbls[j]].name # name]
        ELSE 0

\* a new label, pushed on the labels of the current frame or not; made is
\* the record of the labels created while the frame was the current one
NewLabel(s, name, inframe) ==
    [s EXCEPT !.labels = Append(@, label_new(name)),
              !.fr[Len(s.fr)].lbls = IF inframe THEN Append(@, Len(s.labels) + 1) ELSE @,
              !.fr[Len(s.fr)].made = @ \cup {Len(s.labels) + 1}]

LabelNames == {1, 2}
CompileInit ==
    [mode |-> "compile", ops |-> <<>>, labels |-> <<>>,
     fr |-> << [lbls |-> <<>>, made |-> {}] >>,
     sc |-> << [declares |-> <<>>] >>, cmds |-> <<>>, open |-> <<>>, steps |-> 0,
     err |-> "NULL", last |-> "none", repl |-> FALSE]

CanStmt == scr.mode = "compile" /\ scr.steps < MaxStmts /\ scr.err = "NULL"
Done(s, what) == [s EXCEPT !.steps = @ + 1, !.last = what]

\* AST_GOTO: jump to the label of that name of the current frame, made if needed
StmtGoto ==
    /\ CanStmt
    /\ \E name \in LabelNames :
          LET l == FrameLabel(scr, name)
          IN  IF l # 0 THEN scr' = Done(label_jump(scr, l), "goto")
              ELSE /\ Len(scr.labels) < MaxLabels
                   /\ scr' = Done(label_jump(NewLabel(scr, name, TRUE), Len(scr.labels) + 1),
                                  "goto")
    /\ UNCHANGED <<prg, valid, ctx, waits, control, host, ghost>>

\* AST_LABEL: declare the label of that name, made if needed
StmtLabel ==
    /\ CanStmt
    /\ \E name \in LabelNames :
          LET l == FrameLabel(scr, name)
          IN  IF l # 0 /\ scr.labels[l].pos >= 0
              THEN scr' = Done([scr EXCEPT !.err = "Cannot redeclare label"], "label")
              ELSE IF l # 0 THEN scr' = Done(label_declare(scr, l), "label")
              ELSE /\ Len(scr.labels) < MaxLabels
                   /\ scr' = Done(label_declare(NewLabel(scr, name, TRUE),
                                                Len(scr.labels) + 1), "label")
    /\ UNCHANGED <<prg, valid, ctx, waits, control, host, ghost>>

\* AST_DECLARE of a local command: a label of the frame, a command of the
\* namespace and a declaration of the scope
StmtDeclare ==
    /\ CanStmt
    /\ Len(scr.labels) < MaxLabels
    /\ LET s1 == NewLabel(scr, 0, TRUE)
           l == Len(scr.labels) + 1
       IN  scr' = Done([s1 EXCEPT !.cmds = Append(@, [lbl |-> l, level |-> Len(scr.fr) - 1]),
                                  !.sc[Len(scr.sc)].declares = Append(@, l)], "declare")
    /\ UNCHANGED <<prg, valid, ctx, waits, control, host, ghost>>

\* AST_DEF1: the label of the command (the declared one, or a new one of the
\* frame), a jump over the body, the label declared, a new frame, the cmdhead
StmtDef1 ==
    /\ CanStmt
    /\ Len(scr.fr) < 3
    /\ \E c \in 0..Len(scr.cmds) :
          /\ c # 0 => /\ scr.labels[scr.cmds[c].lbl].pos < 0
                      /\ \E i \in 1..Len(scr.sc[Len(scr.sc)].declares) :
                            scr.sc[Len(scr.sc)].declares[i] = scr.cmds[c].lbl
          /\ Len(scr.labels) + (IF c = 0 THEN 2 ELSE 1) <= MaxLabels
          /\ LET s1 == IF c = 0
                       THEN [NewLabel(scr, 0, TRUE) EXCEPT
                                !.cmds = Append(@, [lbl |-> Len(scr.labels) + 1,
                                                    level |-> Len(scr.fr) - 1])]
                       ELSE [scr EXCEPT !.sc[Len(scr.sc)].declares =
                                SelectSeq(@, LAMBDA x : x # scr.cmds[c].lbl)]
                 lbl == IF c = 0 THEN Len(scr.labels) + 1 ELSE scr.cmds[c].lbl
                 s2 == NewLabel(s1, 0, FALSE)
                 skip == Len(s1.labels) + 1
                 s3 == symtbl_pushFrame(label_declare(label_jump(s2, skip), lbl))
             IN  scr' = Done([s3 EXCEPT !.ops = @ \o <<OP_CMDHEAD, Len(scr.fr), 255>>,
                                        !.open = Append(@, skip)], "def1")
    /\ UNCHANGED <<prg, valid, ctx, waits, control, host, ghost>>

\* AST_DEF2: the cmdtail, symtbl_popFrame, then the label after the body
StmtDef2 ==
    /\ CanStmt
    /\ Len(scr.open) > 0
    /\ LET s1 == [scr EXCEPT !.ops = @ \o <<OP_CMDTAIL>>]
           r == symtbl_popFrame(s1)
       IN  scr' = IF r.err # "NULL" THEN Done([r.s EXCEPT !.err = r.err], "popFrame")
                  ELSE Done([label_declare(r.s, scr.open[Len(scr.open)]) EXCEPT
                                !.open = SubSeq(@, 1, Len(@) - 1)], "popFrame")
    /\ UNCHANGED <<prg, valid, ctx, waits, control, host, ghost>>

\* a call of a local command (program_evalCall), into register 0 of the frame
StmtCall ==
    /\ CanStmt
    /\ \E c \in 1..Len(scr.cmds) :
          scr' = Done(label_call(scr, scr.cmds[c].lbl, <<Len(scr.fr) - 1, 0>>, 0), "call")
    /\ UNCHANGED <<prg, valid, ctx, waits, control, host, ghost>>

\* AST_RETURN of a call of a local command of the enclosing level
StmtReturnCall ==
    /\ CanStmt
    /\ \E c \in 1..Len(scr.cmds) :
          /\ scr.cmds[c].level + 1 = Len(scr.fr) - 1
          /\ scr' = Done(label_returntail(scr, scr.cmds[c].lbl, 0), "returntail")
    /\ UNCHANGED <<prg, valid, ctx, waits, control, host, ghost>>

\* the end of the file (compiler_close): symtbl_popFrame of the outermost frame
CompilerClose ==
    /\ scr.mode = "compile" /\ scr.err = "NULL" /\ scr.last # "close"
    /\ Len(scr.open) = 0
    /\ LET r == symtbl_popFrame(scr)
       IN  scr' = [r.s EXCEPT !.err = r.err, !.last = "close", !.steps = MaxStmts]
    /\ UNCHANGED <<prg, valid, ctx, waits, control, host, ghost>>

InitLabels ==
    /\ prg = Program(<<>>)
    /\ valid = program_validate(prg)
    /\ ctx = context_new(prg)
    /\ waits = [w \in WaitIds |-> FreeWait]
    /\ control = ControlInit
    /\ host = HostInit
    /\ ghost = GhostInit
    /\ scr = CompileInit

NextLabels ==
    \/ StmtGoto
    \/ StmtLabel
    \/ StmtDeclare
    \/ StmtDef1
    \/ StmtDef2
    \/ StmtCall
    \/ StmtReturnCall
    \/ CompilerClose

SpecLabels == InitLabels /\ [][NextLabels]_vars

-----------------------------------------------------------------------------
(* Labels: rewrite sites and the resolved position                          *)

\* the 32-bit little-endian number at the 0-based position index
ReadLoc(ops, index) ==
    ops[index + 1] + 256 * ops[index + 2] + 65536 * ops[index + 3]
        + 16777216 * (ops[index + 4] % 128)

Compiling == scr.mode = "compile"
Declared(l) == scr.labels[l].pos >= 0
Sites(l) == {scr.labels[l].rewrites[i] : i \in 1..Len(scr.labels[l].rewrites)}

\* C28: once a label is declared, every rewrite site registered for it, before
\* or after the declaration, holds the label's position (and an undeclared
\* label's sites still hold the placeholder 0xFFFFFFFF)
C28_SitesHoldPosition ==
    Compiling =>
        \A l \in 1..Len(scr.labels) :
            \A r \in Sites(l) :
                /\ r + 4 <= Len(scr.ops)
                /\ IF Declared(l)
                   THEN /\ ReadLoc(scr.ops, r) = scr.labels[l].pos
                        /\ scr.ops[r + 4] < 128
                   ELSE \A k \in 1..4 : scr.ops[r + k] = 255

\* C28 witness: a declared label, at a position other than 0, with a site
\* registered before its declaration and one registered after it
C28_Witness ==
    /\ Compiling
    /\ \E l \in 1..Len(scr.labels) :
          /\ scr.labels[l].pos > 0
          /\ \E r1, r2 \in Sites(l) :
                /\ r1 < scr.labels[l].pos /\ r2 >= scr.labels[l].pos
                /\ ReadLoc(scr.ops, r1) = scr.labels[l].pos
                /\ ReadLoc(scr.ops, r2) = scr.labels[l].pos

-----------------------------------------------------------------------------
(* Frames: the labels of a frame when it is popped                          *)

PopStep == scr'.steps # scr.steps /\ scr'.last \in {"popFrame", "close"}
PoppedFrame == scr.fr[Len(scr.fr)]
PopSucceeds == scr'.err = "NULL" /\ Len(scr'.fr) = Len(scr.fr) - 1

\* C29: a symtbl_popFrame succeeds only if every label created in the frame
\* has a position by then; with a label of the frame undeclared it is an
\* error and the frame is not popped
C29_PopNeedsDeclared ==
    [][(Compiling /\ PopStep) =>
          /\ PopSucceeds =>
                /\ \A l \in PoppedFrame.made : scr.labels[l].pos >= 0
                /\ \A i \in 1..Len(PoppedFrame.lbls) : PoppedFrame.lbls[i] \in PoppedFrame.made
          /\ (\E l \in PoppedFrame.made : scr.labels[l].pos < 0) =>
                /\ scr'.err \in {"Missing label", "Failed to define"}
                /\ Len(scr'.fr) = Len(scr.fr)
                /\ scr'.ops = scr.ops \o (IF scr'.last = "close" THEN <<>> ELSE <<OP_CMDTAIL>>)]_vars

\* C29 witness: the frame of a command body has been popped, its label
\* declared in the body and jumped to; and the outermost frame has been closed
\* with success
C29_Witness ==
    /\ Compiling /\ scr.last = "close" /\ scr.err = "NULL" /\ Len(scr.fr) = 0
    /\ \E l \in 1..Len(scr.labels) :
          /\ scr.labels[l].name # 0 /\ Declared(l) /\ Sites(l) # {}
          /\ \E c \in 1..Len(scr.cmds) : scr.labels[scr.cmds[c].lbl].pos < scr.labels[l].pos
          /\ \E k \in 1..Len(scr.labels) :
                scr.labels[k].name = 0 /\ scr.labels[k].pos > scr.labels[l].pos

\* a pop that ended in the error of a missing label
C29_MissingSeen == Compiling /\ scr.err = "Missing label"

-----------------------------------------------------------------------------
(* Register allocation of a compile frame: symtbl_addTemp, symtbl_clearTemp, *)
(* symtbl_addVar, symtbl_reserveVars on the vector fr->vars                   *)

MaxSlotSteps == 4
MaxFrameVars == 256

\* n entries FVR_VAR
VarsOf(n) == [i \in 1..n |-> "FVR_VAR"]

\* the 0-based index of the first FVR_TEMP_AVAIL of the vector, or -1
FirstAvail(vs) ==
    IF \E i \in 1..Len(vs) : vs[i] = "FVR_TEMP_AVAIL"
    THEN (CHOOSE i \in 1..Len(vs) :
            /\ vs[i] = "FVR_TEMP_AVAIL"
            /\ \A j \in 1..(i - 1) : vs[j] # "FVR_TEMP_AVAIL") - 1
    ELSE -1

sta_ok(s, index, what) ==
    [s EXCEPT !.ok = TRUE, !.got = index, !.err = "NULL", !.last = what, !.steps = @ + 1]
sta_error(s, msg, what) ==
    [s EXCEPT !.ok = FALSE, !.got = -1, !.err = msg, !.last = what, !.steps = @ + 1,
              !.fails = @ + 1]

\* symtbl_addTemp without the test of the size
C30_AddTempNoCap(s) ==
    LET i == FirstAvail(s.vars)
    IN  IF i >= 0 THEN sta_ok([s EXCEPT !.vars[i + 1] = "FVR_TEMP_INUSE"], i, "addTemp")
        ELSE sta_ok([s EXCEPT !.vars = Append(@, "FVR_TEMP_INUSE")], Len(s.vars), "addTemp")

\* symtbl_addTemp
symtbl_addTemp(s) ==
    LET i == FirstAvail(s.vars)
    IN  IF i >= 0 THEN sta_ok([s EXCEPT !.vars[i + 1] = "FVR_TEMP_INUSE"], i, "addTemp")
        ELSE IF Len(s.vars) >= MaxFrameVars
        THEN sta_error(s, "Too many variables in frame", "addTemp")
        ELSE sta_ok([s EXCEPT !.vars = Append(@, "FVR_TEMP_INUSE")], Len(s.vars), "addTemp")

\* symtbl_clearTemp of the register index of the current frame
symtbl_clearTemp(s, index) ==
    [s EXCEPT !.vars[index + 1] = IF @ = "FVR_TEMP_INUSE" THEN "FVR_TEMP_AVAIL" ELSE @,
              !.last = "clearTemp", !.steps = @ + 1]

\* symtbl_addVar: found is what the namespace holds under the name ("none",
\* "var" with its register old, or "other"), slot the wanted register or -1
symtbl_addVar(s, found, old, slot) ==
    IF found # "none" /\ ~s.repl THEN sta_error(s, "Cannot redefine", "addVar")
    ELSE IF found = "var" THEN sta_ok(s, old, "addVar")
    ELSE LET slot1 == IF slot < 0 THEN Len(s.vars) ELSE slot
             s1 == IF slot < 0 THEN [s EXCEPT !.vars = Append(@, "FVR_VAR")] ELSE s
         IN  IF slot1 >= MaxFrameVars
             THEN sta_error(s1, "Too many variables in frame", "addVar")
             ELSE sta_ok([s1 EXCEPT !.named = @ \cup {slot1}], slot1, "addVar")

\* symtbl_reserveVars
symtbl_reserveVars(s, count) == [s EXCEPT !.vars = @ \o VarsOf(count)]

\* the frames the allocation starts from: variables, then up to two temporaries
SlotTails ==
    {<<>>} \cup {<<a>> : a \in {"FVR_TEMP_INUSE", "FVR_TEMP_AVAIL"}}
           \cup {<<a, b>> : a, b \in {"FVR_TEMP_INUSE", "FVR_TEMP_AVAIL"}}
SlotBases == {0, 253, 254}
SlotsInit(n, tail, repl) ==
    [mode |-> "slots", vars |-> VarsOf(n) \o tail, named |-> 0..(n - 1), repl |-> repl,
     ok |-> TRUE, got |-> -1, err |-> "NULL", last |-> "none", steps |-> 0, fails |-> 0]

\* a failed statement ends a compilation; the REPL resets the compiler, not
\* the symbol table, and goes on
CanSlot == scr.mode = "slots" /\ scr.steps < MaxSlotSteps /\ (scr.err = "NULL" \/ scr.repl)

AddTemp ==
    /\ CanSlot
    /\ scr' = symtbl_addTemp(scr)
    /\ UNCHANGED <<prg, valid, ctx, waits, control, host, ghost>>

ClearTemp ==
    /\ CanSlot
    /\ \E i \in 0..(Len(scr.vars) - 1) :
          /\ \/ scr.vars[i + 1] # "FVR_VAR"
             \/ i \in scr.named /\ \A j \in scr.named : i <= j
          /\ scr' = [symtbl_clearTemp(scr, i) EXCEPT !.err = "NULL"]
    /\ UNCHANGED <<prg, valid, ctx, waits, control, host, ghost>>

\* a declaration of a variable (lval_addVars of a name, slot -1)
AddVar ==
    /\ CanSlot
    /\ \E found \in {"none", "var", "other"} :
          \E old \in (IF found = "var"
                      THEN {r \in scr.named : (\A j \in scr.named : r <= j)
                                                 \/ (\A j \in scr.named : r >= j)}
                      ELSE {-1}) :
              scr' = symtbl_addVar(scr, found, old, -1)
    /\ UNCHANGED <<prg, valid, ctx, waits, control, host, ghost>>

\* AST_DEF1: the new frame of a command with count parameters, named in turn
\* (symtbl_reserveVars, then lval_addVars of parameter i with slot i)
DefParams ==
    /\ CanSlot
    /\ \E count \in {0, 2, 255} :
          LET s1 == symtbl_reserveVars([scr EXCEPT !.vars = <<>>, !.named = {}], count)
          IN  scr' = IF count = 0
                     THEN [s1 EXCEPT !.last = "reserve", !.steps = @ + 1, !.err = "NULL"]
                     ELSE [symtbl_addVar([s1 EXCEPT !.named = 0..(count - 2)],
                                          "none", -1, count - 1)
                              EXCEPT !.last = "reserve"]
    /\ UNCHANGED <<prg, valid, ctx, waits, control, host, ghost>>

InitSlots ==
    /\ prg = Program(<<>>)
    /\ valid = program_validate(prg)
    /\ ctx = context_new(prg)
    /\ waits = [w \in WaitIds |-> FreeWait]
    /\ control = ControlInit
    /\ host = HostInit
    /\ ghost = GhostInit
    /\ \E n \in SlotBases, tail \in SlotTails, repl \in BOOLEAN : scr = SlotsInit(n, tail, repl)

NextSlots ==
    \/ AddTemp
    \/ ClearTemp
    \/ AddVar
    \/ DefParams

SpecSlots == InitSlots /\ [][NextSlots]_vars

InSlots == scr.mode = "slots"
Requested(what) == scr'.steps = scr.steps + 1 /\ scr'.last = what

\* what the requests do, the length of the vector apart
SlotRequests ==
    /\ Requested("addTemp") =>
          IF FirstAvail(scr.vars) >= 0
          THEN /\ scr'.ok /\ scr'.got = FirstAvail(scr.vars)
               /\ scr'.vars = [scr.vars EXCEPT ![scr'.got + 1] = "FVR_TEMP_INUSE"]
          ELSE IF Len(scr.vars) < MaxFrameVars
          THEN /\ scr'.ok /\ scr'.got = Len(scr.vars)
               /\ scr'.vars = Append(scr.vars, "FVR_TEMP_INUSE")
          ELSE /\ ~scr'.ok /\ scr'.err = "Too many variables in frame"
               /\ scr'.vars = scr.vars
    /\ (Requested("addVar") /\ scr'.vars # scr.vars) =>
          /\ scr'.vars = Append(scr.vars, "FVR_VAR")
          /\ IF Len(scr.vars) < MaxFrameVars
             THEN scr'.ok /\ scr'.got = Len(scr.vars)
             ELSE ~scr'.ok /\ scr'.err = "Too many variables in frame"
    /\ (Requested("addVar") /\ scr'.vars = scr.vars) =>
          \/ scr'.ok /\ scr'.got \in scr.named
          \/ ~scr'.ok /\ scr'.err = "Cannot redefine"

C30_LastSlotSeen == InSlots /\ scr.ok /\ scr.got = 255 /\ scr.last \in {"addTemp", "addVar"}

-----------------------------------------------------------------------------
(* The names of a namespace: symtbl_addVar, symtbl_addEnum,                  *)
(* symtbl_addCmdLocal, symtbl_addCmdNative on ns->names                      *)

MaxNameSteps == 4
NsNames == {1, 2}

\* the position of the name in ns->names (the first entry that has it), or 0
NameAt(names, name) ==
    IF \E i \in 1..Len(names) : names[i].name = name
    THEN CHOOSE i \in 1..Len(names) :
            /\ names[i].name = name
            /\ \A j \in 1..(i - 1) : names[j].name # name
    ELSE 0

nsname_var(name, index) == [name |-> name, type |-> "NSN_VAR", u |-> index]
nsname_enum(name, val) == [name |-> name, type |-> "NSN_ENUM", u |-> val]
nsname_cmdLocal(name, lbl) == [name |-> name, type |-> "NSN_CMD_LOCAL", u |-> lbl]
nsname_cmdNative(name, hash) == [name |-> name, type |-> "NSN_CMD_NATIVE", u |-> hash]

\* symtbl_addVar with the namespace: the entry of the name is looked up in
\* s.names, the register comes from symtbl_addVar above
NsAddVar(s, name) ==
    LET i == NameAt(s.names, name)
        found == IF i = 0 THEN "none"
                 ELSE IF s.names[i].type = "NSN_VAR" THEN "var" ELSE "other"
        r == symtbl_addVar(s, found, IF found = "var" THEN s.names[i].u ELSE -1, -1)
    IN  IF ~r.ok \/ found = "var" THEN r
        ELSE IF i = 0 THEN [r EXCEPT !.names = Append(@, nsname_var(name, r.got))]
        ELSE [r EXCEPT !.names[i] = nsname_var(name, r.got)]

\* the common shape of symtbl_addEnum, symtbl_addCmdLocal, symtbl_addCmdNative
NsAdd(s, nsn, what) ==
    LET i == NameAt(s.names, nsn.name)
    IN  IF i # 0 /\ ~s.repl THEN sta_error(s, "Cannot redefine", what)
        ELSE IF i # 0 THEN sta_ok([s EXCEPT !.names[i] = nsn], -1, what)
        ELSE sta_ok([s EXCEPT !.names = Append(@, nsn)], -1, what)

\* symtbl_addEnum that pushes without looking for the name
C31_AddEnumPush(s, name, val) ==
    sta_ok([s EXCEPT !.names = Append(@, nsname_enum(name, val))], -1, "addEnum")

symtbl_addEnum(s, name, val) == NsAdd(s, nsname_enum(name, val), "addEnum")
symtbl_addCmdLocal(s, name, lbl) == NsAdd(s, nsname_cmdLocal(name, lbl), "addCmdLocal")
symtbl_addCmdNative(s, name, hash) == NsAdd(s, nsname_cmdNative(name, hash), "addCmdNative")

NamesInit(repl) ==
    [mode |-> "names", vars |-> <<>>, named |-> {}, repl |-> repl, names |-> <<>>,
     ok |-> TRUE, got |-> -1, err |-> "NULL", last |-> "none", steps |-> 0, fails |-> 0,
     name |-> 0]

CanName == scr.mode = "names" /\ scr.steps < MaxNameSteps /\ (scr.err = "NULL" \/ scr.repl)

\* var name
DeclVar ==
    /\ CanName
    /\ \E name \in NsNames : scr' = [NsAddVar(scr, name) EXCEPT !.name = name]
    /\ UNCHANGED <<prg, valid, ctx, waits, control, host, ghost>>

\* enum name (its value the number of the statement)
DeclEnum ==
    /\ CanName
    /\ \E name \in NsNames :
          scr' = [symtbl_addEnum(scr, name, scr.steps + 1) EXCEPT !.name = name]
    /\ UNCHANGED <<prg, valid, ctx, waits, control, host, ghost>>

\* def name (its label the number of the statement)
DeclCmdLocal ==
    /\ CanName
    /\ \E name \in NsNames :
          scr' = [symtbl_addCmdLocal(scr, name, scr.steps + 1) EXCEPT !.name = name]
    /\ UNCHANGED <<prg, valid, ctx, waits, control, host, ghost>>

\* declare name 'key' (its hash the number of the statement)
DeclCmdNative ==
    /\ CanName
    /\ \E name \in NsNames :
          scr' = [symtbl_addCmdNative(scr, name, scr.steps + 1) EXCEPT !.name = name]
    /\ UNCHANGED <<prg, valid, ctx, waits, control, host, ghost>>

InitNames ==
    /\ prg = Program(<<>>)
    /\ valid = program_validate(prg)
    /\ ctx = context_new(prg)
    /\ waits = [w \in WaitIds |-> FreeWait]
    /\ control = ControlInit
    /\ host = HostInit
    /\ ghost = GhostInit
    /\ \E repl \in BOOLEAN : scr = NamesInit(repl)

NextNames ==
    \/ DeclVar
    \/ DeclEnum
    \/ DeclCmdLocal
    \/ DeclCmdNative

SpecNames == InitNames /\ [][NextNames]_vars

InNames == scr.mode = "names"
Introduced == scr'.steps = scr.steps + 1
TypeOf(what) ==
    CASE what = "addVar" -> "NSN_VAR"
      [] what = "addEnum" -> "NSN_ENUM"
      [] what = "addCmdLocal" -> "NSN_CMD_LOCAL"
      [] OTHER -> "NSN_CMD_NATIVE"

\* the binding the statement asks for: a variable in a new register, the
\* others with the number of the statement
AskedFor ==
    [name |-> scr'.name, type |-> TypeOf(scr'.last),
     u |-> IF scr'.last = "addVar" THEN Len(scr.vars) ELSE scr.steps + 1]

OncePerName ==
    \A i, j \in 1..Len(scr.names) : scr.names[i].name = scr.names[j].name => i = j

\* what every introduction does outside the REPL, and a first one in it
IntroducedOnce ==
    LET i == NameAt(scr.names, scr'.name)
    IN  /\ i = 0 => scr'.ok /\ scr'.names = Append(scr.names, AskedFor)
        /\ (i # 0 /\ ~scr.repl) =>
              ~scr'.ok /\ scr'.err = "Cannot redefine" /\ scr'.names = scr.names

\* C31 as stated: outside the REPL the second introduction of a name is an
\* error and the namespace is as before; in the REPL it replaces the binding
C31_RedefineReplaces ==
    /\ [](InNames => OncePerName)
    /\ [][(InNames /\ Introduced) =>
            /\ IntroducedOnce
            /\ LET i == NameAt(scr.names, scr'.name)
               IN  (i # 0 /\ scr.repl) =>
                      scr'.ok /\ scr'.names = [scr.names EXCEPT ![i] = AskedFor]]_vars

\* C31 amended: as stated, but in the REPL a variable introduced again as a
\* variable keeps its binding and its register
C31_RedefineReplacesButVar ==
    /\ [](InNames => OncePerName)
    /\ [][(InNames /\ Introduced) =>
            /\ IntroducedOnce
            /\ LET i == NameAt(scr.names, scr'.name)
               IN  (i # 0 /\ scr.repl) =>
                      /\ scr'.ok
                      /\ IF scr'.last = "addVar" /\ scr.names[i].type = "NSN_VAR"
                         THEN /\ scr'.names = scr.names /\ scr'.vars = scr.vars
                              /\ scr'.got = scr.names[i].u
                         ELSE scr'.names = [scr.names EXCEPT ![i] = AskedFor]]_vars

\* C31 witness: in the REPL a name has been introduced three times, the last
\* binding of another type than the first; its one entry is the last binding
C31_Witness ==
    /\ InNames /\ scr.repl /\ scr.steps = 3 /\ scr.ok
    /\ Len(scr.names) = 1 /\ scr.names[1].u = 3 /\ scr.last = "addEnum"

\* outside the REPL a second introduction has been refused
C31_RefusedSeen ==
    /\ InNames /\ ~scr.repl /\ ~scr.ok /\ scr.err = "Cannot redefine" /\ Len(scr.names) = 1

-----------------------------------------------------------------------------
(* Lookup of names: namespace_lookupLevel, namespace_getSiblings,            *)
(* namespace_lookup, symtbl_lookupfast, and the statements that build the    *)
(* namespaces (namespace, end, using, do, def)                               *)

MaxLookSteps == 7
MaxNamespaces == 3
MaxScopes == 2

SeqHas(s, x) == \E i \in 1..Len(s) : s[i] = x
namespace_new == [usings |-> <<>>, names |-> <<>>]
nsname_namespace(name, ns) == [name |-> name, type |-> "NSN_NAMESPACE", u |-> ns]
nl_notfound(st) == [found |-> FALSE, nsn |-> nsname_var(0, 0), st |-> st]
nl_found(nsn, st) == [found |-> TRUE, nsn |-> nsn, st |-> st]

\* namespace_getSiblings: ns and, through the usings that are not on tried,
\* the namespaces it uses, each once; i is the position in ns->usings
RECURSIVE namespace_getSiblings(_, _, _, _)
RECURSIVE SiblingsOfUsings(_, _, _, _, _)
namespace_getSiblings(nss, ns, res, tried) ==
    IF SeqHas(res, ns) THEN res
    ELSE SiblingsOfUsings(nss, ns, 1, Append(res, ns), tried)
SiblingsOfUsings(nss, ns, i, res, tried) ==
    IF i > Len(nss[ns].usings) THEN res
    ELSE LET uns == nss[ns].usings[i]
         IN  IF SeqHas(tried, uns) THEN SiblingsOfUsings(nss, ns, i + 1, res, tried)
             ELSE SiblingsOfUsings(nss, ns, i + 1,
                                   namespace_getSiblings(nss, uns, res, tried), tried)

\* the state of one lookup: the list tried, and the record of the calls of
\* namespace_lookup (calls) and of those that got past the test of tried
\* (entered), each with its namespace and its position in the names
LookInit == [tried |-> <<>>, calls |-> <<>>, entered |-> <<>>]

\* namespace_lookup that does not test the list tried
RECURSIVE C32_LookupUntried(_, _, _, _, _)
RECURSIVE namespace_lookup(_, _, _, _, _)
RECURSIVE namespace_lookupLevel(_, _, _, _, _)
RECURSIVE LookupAll(_, _, _, _, _, _)

\* namespace_lookupLevel
namespace_lookupLevel(nss, ns, names, start, st) ==
    LET i == NameAt(nss[ns].names, names[start])
    IN  IF i = 0 THEN nl_notfound(st)
        ELSE IF start = Len(names) THEN nl_found(nss[ns].names[i], st)
        ELSE IF nss[ns].names[i].type = "NSN_NAMESPACE"
        THEN namespace_lookup(nss, nss[ns].names[i].u, names, start + 1, st)
        ELSE nl_notfound(st)

\* the loop of namespace_lookup over allns, from position i
LookupAll(nss, allns, i, names, start, st) ==
    IF i > Len(allns) THEN nl_notfound(st)
    ELSE LET n == CHOOSE r \in {namespace_lookupLevel(nss, allns[i], names, start, st)} : TRUE
         IN  IF n.found THEN n
             ELSE LookupAll(nss, allns, i + 1, names, start, n.st)

C32_LookupUntried(nss, ns, names, start, st) ==
    LET st1 == [st EXCEPT !.calls = Append(@, <<ns, start>>),
                          !.tried = Append(@, ns),
                          !.entered = Append(@, <<ns, start>>)]
    IN  LookupAll(nss, namespace_getSiblings(nss, ns, <<>>, st1.tried), 1, names, start, st1)

\* namespace_lookup
namespace_lookup(nss, ns, names, start, st) ==
    LET st0 == [st EXCEPT !.calls = Append(@, <<ns, start>>)]
        st1 == [st0 EXCEPT !.tried = Append(@, ns), !.entered = Append(@, <<ns, start>>)]
    IN  IF SeqHas(st.tried, ns) THEN nl_notfound(st0)
        ELSE LookupAll(nss, namespace_getSiblings(nss, ns, <<>>, st1.tried), 1,
                       names, start, st1)

\* the namespaces symtbl_lookupfast tries, in its order: the stack of each
\* scope from the top down, the scopes from the innermost out
RECURSIVE TryOrder(_, _)
TryOrder(sc, k) ==
    IF k = 0 THEN <<>>
    ELSE [j \in 1..Len(sc[k].nsStack) |-> sc[k].nsStack[Len(sc[k].nsStack) + 1 - j]]
            \o TryOrder(sc, k - 1)

RECURSIVE LookupFrom(_, _, _, _, _)
LookupFrom(nss, order, i, names, st) ==
    IF i > Len(order) THEN nl_notfound(st)
    ELSE LET n == CHOOSE r \in {namespace_lookup(nss, order[i], names, 1, st)} : TRUE
         IN  IF n.found THEN n ELSE LookupFrom(nss, order, i + 1, names, n.st)

\* symtbl_lookupfast
symtbl_lookupfast(s, names) ==
    LookupFrom(s.ns, TryOrder(s.sc, Len(s.sc)), 1, names, LookInit)

\* sym->sc->ns
CurNs(s) == s.sc[Len(s.sc)].nsStack[Len(s.sc[Len(s.sc)].nsStack)]

\* symtbl_findNamespace of a single name: [s, ok, ns]
symtbl_findNamespace(s, name) ==
    LET ns == CurNs(s)
        i == NameAt(s.ns[ns].names, name)
        new == Len(s.ns) + 1
    IN  IF i # 0 /\ s.ns[ns].names[i].type = "NSN_NAMESPACE"
        THEN [s |-> s, ok |-> TRUE, ns |-> s.ns[ns].names[i].u]
        ELSE IF i # 0 /\ ~s.repl THEN [s |-> s, ok |-> FALSE, ns |-> 0]
        ELSE IF i # 0
        THEN [s |-> [s EXCEPT !.ns = Append([@ EXCEPT ![ns].names[i] =
                                                nsname_namespace(name, new)], namespace_new)],
              ok |-> TRUE, ns |-> new]
        ELSE [s |-> [s EXCEPT !.ns = Append([@ EXCEPT ![ns].names =
                                                Append(@, nsname_namespace(name, new))],
                                            namespace_new)],
              ok |-> TRUE, ns |-> new]

LookupTableInit ==
    [mode |-> "lookup", repl |-> FALSE, ns |-> <<namespace_new>>,
     sc |-> << [nsStack |-> <<1>>] >>, steps |-> 0, err |-> "NULL", last |-> "none",
     names |-> <<>>, res |-> nl_notfound(LookInit)]

CanLook == scr.mode = "lookup" /\ scr.steps < MaxLookSteps /\ scr.err = "NULL"
Stmt(s, what) == [s EXCEPT !.steps = @ + 1, !.last = what]
NamespaceNames == {1, 2}
VarNames == {3}
VarName == CHOOSE n \in VarNames : TRUE

\* AST_NAMESPACE1: symtbl_pushNamespace
StmtNamespace1 ==
    /\ CanLook
    /\ \E name \in NamespaceNames :
          LET r == symtbl_findNamespace(scr, name)
          IN  /\ Len(r.s.ns) <= MaxNamespaces
              /\ Len(scr.sc[Len(scr.sc)].nsStack) < 3
              /\ scr' = IF ~r.ok THEN Stmt([scr EXCEPT !.err = "Not a namespace"], "namespace")
                        ELSE Stmt([r.s EXCEPT !.sc[Len(scr.sc)].nsStack = Append(@, r.ns)],
                                  "namespace")
    /\ UNCHANGED <<prg, valid, ctx, waits, control, host, ghost>>

\* AST_NAMESPACE2: symtbl_popNamespace
StmtNamespace2 ==
    /\ CanLook
    /\ Len(scr.sc[Len(scr.sc)].nsStack) > 1
    /\ scr' = Stmt([scr EXCEPT !.sc[Len(scr.sc)].nsStack = SubSeq(@, 1, Len(@) - 1)], "end")
    /\ UNCHANGED <<prg, valid, ctx, waits, control, host, ghost>>

\* AST_USING of a single name
StmtUsing ==
    /\ CanLook
    /\ \E name \in NamespaceNames :
          \E sl \in {symtbl_lookupfast(scr, <<name>>)} :
              IF ~sl.found
              THEN LET r == symtbl_findNamespace(scr, name)
                   IN  /\ Len(r.s.ns) <= MaxNamespaces
                       /\ scr' = IF ~r.ok
                                 THEN Stmt([scr EXCEPT !.err = "Not a namespace"], "using")
                                 ELSE Stmt([r.s EXCEPT !.ns[CurNs(scr)].usings =
                                               IF SeqHas(@, r.ns) THEN @ ELSE Append(@, r.ns)],
                                           "using")
              ELSE IF sl.nsn.type # "NSN_NAMESPACE"
              THEN scr' = Stmt([scr EXCEPT !.err = "Expecting namespace"], "using")
              ELSE scr' = Stmt([scr EXCEPT !.ns[CurNs(scr)].usings =
                                   IF SeqHas(@, sl.nsn.u) THEN @ ELSE Append(@, sl.nsn.u)],
                               "using")
    /\ UNCHANGED <<prg, valid, ctx, waits, control, host, ghost>>

\* var of the name VarName in the current namespace (symtbl_addVar)
StmtVar ==
    /\ CanLook
    /\ NameAt(scr.ns[CurNs(scr)].names, VarName) = 0
    /\ scr' = Stmt([scr EXCEPT !.ns[CurNs(scr)].names = Append(@, nsname_var(VarName, CurNs(scr)))],
                   "var")
    /\ UNCHANGED <<prg, valid, ctx, waits, control, host, ghost>>

\* the start of a block: symtbl_pushScope (scope_new: a namespace of its own)
StmtDo ==
    /\ CanLook
    /\ Len(scr.sc) < MaxScopes /\ Len(scr.ns) < MaxNamespaces
    /\ scr' = Stmt([scr EXCEPT !.ns = Append(@, namespace_new),
                               !.sc = Append(@, [nsStack |-> <<Len(scr.ns) + 1>>])], "do")
    /\ UNCHANGED <<prg, valid, ctx, waits, control, host, ghost>>

\* a use of a name: symtbl_lookup
StmtLookup ==
    /\ CanLook
    /\ \E names \in {<<VarName>>, <<1, VarName>>, <<2, VarName>>, <<1, 2, VarName>>, <<1, 2>>} :
          \E r \in {symtbl_lookupfast(scr, names)} :
              scr' = Stmt([scr EXCEPT !.names = names, !.res = r], "lookup")
    /\ UNCHANGED <<prg, valid, ctx, waits, control, host, ghost>>

InitLookup ==
    /\ prg = Program(<<>>)
    /\ valid = program_validate(prg)
    /\ ctx = context_new(prg)
    /\ waits = [w \in WaitIds |-> FreeWait]
    /\ control = ControlInit
    /\ host = HostInit
    /\ ghost = GhostInit
    /\ scr = LookupTableInit

NextLookup ==
    \/ StmtNamespace1
    \/ StmtNamespace2
    \/ StmtUsing
    \/ StmtVar
    \/ StmtDo
    \/ StmtLookup

SpecLookup == InitLookup /\ [][NextLookup]_vars

InLookup == scr.mode = "lookup"
LookedUp == InLookup /\ scr.last = "lookup"
UsingCycle ==
    \E a, b \in 1..Len(scr.ns) : SeqHas(scr.ns[a].usings, b) /\ SeqHas(scr.ns[b].usings, a)

\* C32: a lookup ends, and in it each namespace is entered at most once: the
\* calls of namespace_lookup that get past the test of tried are of distinct
\* namespaces, so there are no more of them than namespaces
C32_LookupEntersOnce ==
    LookedUp =>
        /\ \A i, j \in 1..Len(scr.res.st.entered) :
              scr.res.st.entered[i][1] = scr.res.st.entered[j][1] => i = j
        /\ Len(scr.res.st.entered) <= Len(scr.ns)
        /\ Len(scr.res.st.tried) = Len(scr.res.st.entered)

\* C32 witness: a lookup that found nothing among namespaces that use one
\* another, with a call that the list tried has turned away
C32_Witness ==
    /\ LookedUp /\ UsingCycle /\ ~scr.res.found
    /\ \E a, b \in 1..Len(scr.ns) :
          a # b /\ SeqHas(scr.ns[a].usings, b) /\ SeqHas(scr.ns[b].usings, a)
    /\ Len(scr.res.st.entered) >= 2
    /\ Len(scr.res.st.calls) > Len(scr.res.st.entered)

\* a namespace a that the current scope can see, with an entry for b
Visible(a, b) ==
    LET r == symtbl_lookupfast(scr, <<a>>)
    IN  /\ r.found /\ r.nsn.type = "NSN_NAMESPACE"
        /\ NameAt(scr.ns[r.nsn.u].names, b) # 0

\* C33: the lookup of a.b finds a binding whenever the namespace a is visible
\* from the current scope and defines b
C33_QualifiedFound ==
    (LookedUp /\ Len(scr.names) = 2 /\ Visible(scr.names[1], scr.names[2])) => scr.res.found

\* the namespaces the lookup starts from
OnStack(ns) == SeqHas(TryOrder(scr.sc, Len(scr.sc)), ns)

\* what holds of the lookup of a.b: it finds the binding when it is made from
\* outside the namespace a and the namespaces it starts from use no other
QualifiedFoundFromOutside ==
    (/\ LookedUp /\ Len(scr.names) = 2 /\ Visible(scr.names[1], scr.names[2])
     /\ ~OnStack(symtbl_lookupfast(scr, <<scr.names[1]>>).nsn.u)
     /\ \A n \in 1..Len(scr.ns) : OnStack(n) => scr.ns[n].usings = <<>>) => scr.res.found

-----------------------------------------------------------------------------
(* The lexer: lex_fwd, lex_rev, lex_process, lex_add over the characters     *)
(* { } ' " $ a and the space; tks is the list of the tokens emitted          *)

MaxChars == 7
LexChars == {"{", "}", "'", "\"", "$", "a", " "}

ks_char(c) == IF c = "{" THEN "KS_LBRACE" ELSE IF c = "}" THEN "KS_RBRACE" ELSE "KS_INVALID"
\* no two and no three of these characters are one operator
ks_char2(c1, c2) == "KS_INVALID"
ks_char3(c1, c2, c3) == "KS_INVALID"
isSpace(c) == c = " "
isIdentStart(c) == c = "a"
isIdentBody(c) == c = "a"

tok_ks(k) == [t |-> "TOK_KS", v |-> <<k>>]
tok_str(str) == [t |-> "TOK_STR", v |-> str]
tok_ident(str) == [t |-> "TOK_IDENT", v |-> str]
tok_error(msg) == [t |-> "TOK_ERROR", v |-> <<msg>>]

\* lex_new (lex_reset); the file positions are the numbers of the characters
lex_new ==
    [state |-> "LEX_START", str |-> <<>>, braces |-> <<0>>, flpS |-> 0, flpR |-> 0,
     flp1 |-> 0, flp2 |-> 0, flp3 |-> 0, chR |-> "", ch1 |-> "", ch2 |-> "", ch3 |-> "",
     ch4 |-> "", tks |-> <<>>]

lex_fwd(lx, flp, ch) ==
    [lx EXCEPT !.ch4 = lx.ch3, !.ch3 = lx.ch2, !.ch2 = lx.ch1, !.ch1 = ch,
               !.flp3 = lx.flp2, !.flp2 = lx.flp1, !.flp1 = flp]

lex_rev(lx) ==
    [lx EXCEPT !.chR = lx.ch1, !.ch1 = lx.ch2, !.ch2 = lx.ch3, !.ch3 = lx.ch4, !.ch4 = "",
               !.flpR = lx.flp1, !.flp1 = lx.flp2, !.flp2 = lx.flp3, !.flp3 = 0]

Push(lx, tok) == [lx EXCEPT !.tks = Append(@, tok)]
Top(braces) == braces[Len(braces)]

\* the braces of LEX_START that leaves the counter alone at a "{"
C34_StartNoIncrement(lx) ==
    IF lx.ch1 = "{" THEN [lx EXCEPT !.state = "LEX_SPECIAL1"]
    ELSE IF Top(lx.braces) > 0
    THEN [lx EXCEPT !.braces[Len(lx.braces)] = @ - 1, !.state = "LEX_SPECIAL1"]
    ELSE IF Len(lx.braces) > 1
    THEN Push(Push([lx EXCEPT !.braces = SubSeq(@, 1, Len(@) - 1), !.str = <<>>,
                              !.state = "LEX_STR_INTERP"],
                   tok_ks("KS_RPAREN")), tok_ks("KS_TILDE"))
    ELSE [Push(lx, tok_error("Mismatched brace")) EXCEPT !.state = "LEX_SPECIAL1"]

\* LEX_START at a character of an operator: the braces
lex_start_ks(lx) ==
    IF lx.ch1 = "{"
    THEN [lx EXCEPT !.braces[Len(lx.braces)] = @ + 1, !.state = "LEX_SPECIAL1"]
    ELSE IF lx.ch1 = "}"
    THEN IF Top(lx.braces) > 0
         THEN [lx EXCEPT !.braces[Len(lx.braces)] = @ - 1, !.state = "LEX_SPECIAL1"]
         ELSE IF Len(lx.braces) > 1
         THEN Push(Push([lx EXCEPT !.braces = SubSeq(@, 1, Len(@) - 1), !.str = <<>>,
                                   !.state = "LEX_STR_INTERP"],
                        tok_ks("KS_RPAREN")), tok_ks("KS_TILDE"))
         ELSE [Push(lx, tok_error("Mismatched brace")) EXCEPT !.state = "LEX_SPECIAL1"]
    ELSE [lx EXCEPT !.state = "LEX_SPECIAL1"]

\* the end of a single-quoted string that emits the string token alone
C35_BasicEndBare(lx) ==
    [Push(lx, tok_str(lx.str)) EXCEPT !.state = "LEX_START", !.str = <<>>]

\* LEX_STR_BASIC_ESC at a character other than the quote, before the
\* character is processed again
lex_str_basic_end(lx) ==
    [Push(Push(Push(lx, tok_ks("KS_LPAREN")), tok_str(lx.str)), tok_ks("KS_RPAREN"))
        EXCEPT !.state = "LEX_START", !.str = <<>>]

RECURSIVE lex_process(_)
lex_process(lx) ==
    LET ch1 == lx.ch1
    IN  CASE lx.state = "LEX_START" ->
               LET l0 == [lx EXCEPT !.flpS = lx.flp1]
               IN  IF ks_char(ch1) # "KS_INVALID" THEN lex_start_ks(l0)
                   ELSE IF isIdentStart(ch1)
                   THEN [l0 EXCEPT !.str = <<ch1>>, !.state = "LEX_IDENT"]
                   ELSE IF ch1 = "'" THEN [l0 EXCEPT !.str = <<>>, !.state = "LEX_STR_BASIC"]
                   ELSE IF ch1 = "\""
                   THEN Push([l0 EXCEPT !.str = <<>>, !.state = "LEX_STR_INTERP"],
                             tok_ks("KS_LPAREN"))
                   ELSE IF ~isSpace(ch1) THEN Push(l0, tok_error("Unexpected character"))
                   ELSE l0
          [] lx.state = "LEX_SPECIAL1" ->
               IF ks_char(ch1) # "KS_INVALID" THEN [lx EXCEPT !.state = "LEX_SPECIAL2"]
               ELSE lex_process([Push(lx, tok_ks(ks_char(lx.ch2))) EXCEPT !.state = "LEX_START"])
          [] lx.state = "LEX_SPECIAL2" ->
               IF ks_char3(lx.ch3, lx.ch2, ch1) # "KS_INVALID"
               THEN [Push(lx, tok_ks(ks_char3(lx.ch3, lx.ch2, ch1))) EXCEPT !.state = "LEX_START"]
               ELSE IF ks_char2(lx.ch3, lx.ch2) # "KS_INVALID"
               THEN lex_process([Push(lx, tok_ks(ks_char2(lx.ch3, lx.ch2)))
                                    EXCEPT !.state = "LEX_START"])
               ELSE LET l1 == lex_rev([Push(lx, tok_ks(ks_char(lx.ch3)))
                                          EXCEPT !.state = "LEX_START"])
                        l2 == CHOOSE r \in {lex_process(l1)} : TRUE
                    IN  lex_process(lex_fwd(l2, l2.flpR, l2.chR))
          [] lx.state = "LEX_IDENT" ->
               IF ~isIdentBody(ch1)
               THEN lex_process([Push(lx, tok_ident(lx.str)) EXCEPT
                                    !.str = <<>>, !.state = "LEX_START"])
               ELSE [lx EXCEPT !.str = Append(@, ch1)]
          [] lx.state = "LEX_STR_BASIC" ->
               IF ch1 = "'" THEN [lx EXCEPT !.state = "LEX_STR_BASIC_ESC"]
               ELSE [lx EXCEPT !.str = Append(@, ch1)]
          [] lx.state = "LEX_STR_BASIC_ESC" ->
               IF ch1 = "'" THEN [lx EXCEPT !.str = Append(@, ch1), !.state = "LEX_STR_BASIC"]
               ELSE lex_process(lex_str_basic_end(lx))
          [] lx.state = "LEX_STR_INTERP" ->
               IF ch1 = "\""
               THEN [Push(Push(lx, tok_str(lx.str)), tok_ks("KS_RPAREN")) EXCEPT
                        !.state = "LEX_START", !.str = <<>>]
               ELSE IF ch1 = "$"
               THEN [Push(Push(lx, tok_str(lx.str)), tok_ks("KS_TILDE")) EXCEPT
                        !.state = "LEX_STR_INTERP_DLR", !.str = <<>>]
               ELSE [lx EXCEPT !.str = Append(@, ch1)]
          [] lx.state = "LEX_STR_INTERP_DLR" ->
               IF ch1 = "{"
               THEN Push([lx EXCEPT !.braces = Append(@, 0), !.state = "LEX_START"],
                         tok_ks("KS_LPAREN"))
               ELSE IF isIdentStart(ch1)
               THEN [lx EXCEPT !.str = <<ch1>>, !.state = "LEX_STR_INTERP_DLR_ID",
                               !.flpS = lx.flp1]
               ELSE Push(lx, tok_error("Invalid substitution"))
          [] OTHER ->  \* LEX_STR_INTERP_DLR_ID
               IF ~isIdentBody(ch1)
               THEN IF ch1 = "\""
                    THEN [Push(Push(lx, tok_ident(lx.str)), tok_ks("KS_RPAREN")) EXCEPT
                             !.state = "LEX_START", !.str = <<>>]
                    ELSE lex_process([Push(Push(lx, tok_ident(lx.str)), tok_ks("KS_TILDE"))
                                         EXCEPT !.str = <<>>, !.state = "LEX_STR_INTERP"])
               ELSE [lx EXCEPT !.str = Append(@, ch1)]

\* lex_add
lex_add(lx, flp, ch) == lex_process(lex_fwd(lx, flp, ch))

LexInit == [mode |-> "lex", lx |-> lex_new, text |-> <<>>]

\* compiler_write: the next character of the source
WriteChar ==
    /\ scr.mode = "lex" /\ Len(scr.text) < MaxChars
    /\ \E ch \in LexChars :
          \E l \in {lex_add(scr.lx, Len(scr.text) + 1, ch)} :
              scr' = [scr EXCEPT !.lx = l, !.text = Append(@, ch)]
    /\ UNCHANGED <<prg, valid, ctx, waits, control, host, ghost>>

InitLex ==
    /\ prg = Program(<<>>)
    /\ valid = program_validate(prg)
    /\ ctx = context_new(prg)
    /\ waits = [w \in WaitIds |-> FreeWait]
    /\ control = ControlInit
    /\ host = HostInit
    /\ ghost = GhostInit
    /\ scr = LexInit

NextLex == WriteChar

SpecLex == InitLex /\ [][NextLex]_vars

-----------------------------------------------------------------------------
(* The lexer: braces of embedded expressions, single-quoted strings          *)

InLex == scr.mode = "lex"

\* the rule of the braces read off the text alone: what a character does in
\* code (RefCode), in a double-quoted string (RefInterp), and elsewhere
RefCode(r, ch) ==
    IF ch = "{" THEN [r EXCEPT !.braces[Len(r.braces)] = @ + 1]
    ELSE IF ch = "}"
    THEN IF Top(r.braces) > 0 THEN [r EXCEPT !.braces[Len(r.braces)] = @ - 1]
         ELSE IF Len(r.braces) > 1
         THEN [r EXCEPT !.braces = SubSeq(@, 1, Len(@) - 1), !.at = "interp"]
         ELSE r
    ELSE IF ch = "'" THEN [r EXCEPT !.at = "basic"]
    ELSE IF ch = "\"" THEN [r EXCEPT !.at = "interp"]
    ELSE r
RefInterp(r, ch) ==
    IF ch = "\"" THEN [r EXCEPT !.at = "code"]
    ELSE IF ch = "$" THEN [r EXCEPT !.at = "dollar"]
    ELSE r
RefChar(r, ch) ==
    CASE r.at = "code" -> RefCode(r, ch)
      [] r.at = "basic" -> IF ch = "'" THEN [r EXCEPT !.at = "quote"] ELSE r
      [] r.at = "quote" -> IF ch = "'" THEN [r EXCEPT !.at = "basic"]
                           ELSE RefCode([r EXCEPT !.at = "code"], ch)
      [] r.at = "interp" -> RefInterp(r, ch)
      [] r.at = "dollar" -> IF ch = "{" THEN [r EXCEPT !.braces = Append(@, 0), !.at = "code"]
                            ELSE IF ch = "a" THEN [r EXCEPT !.at = "name"]
                            ELSE r
      [] OTHER -> IF ch = "a" THEN r
                  ELSE IF ch = "\"" THEN [r EXCEPT !.at = "code"]
                  ELSE RefInterp([r EXCEPT !.at = "interp"], ch)
RECURSIVE RefScan(_, _)
RefScan(text, n) ==
    IF n = 0 THEN [at |-> "code", braces |-> <<0>>]
    ELSE RefChar(RefScan(text, n - 1), text[n])

\* an operator character is held back while the lexer waits for the rest of
\* an operator: in LEX_SPECIAL2 the last character has not been looked at
Held == IF scr.lx.state = "LEX_SPECIAL2" THEN 1 ELSE 0
Seen == RefScan(scr.text, Len(scr.text) - Held)
NewToks == SubSeq(scr'.lx.tks, Len(scr.lx.tks) + 1, Len(scr'.lx.tks))
Written == scr'.text[Len(scr'.text)]

\* C34: in code the top counter goes up at "{" and down at "}"; a "}" at
\* counter zero with frames left pops the stack, emits a close-paren and then
\* a tilde, and the lexer is in the string again
C34_BracesOfInterpolation ==
    /\ [](InLex =>
            /\ scr.lx.braces = Seen.braces
            /\ (Seen.at = "interp") = (scr.lx.state = "LEX_STR_INTERP"))
    /\ [][(InLex /\ Len(scr'.lx.braces) < Len(scr.lx.braces)) =>
            /\ Top(scr.lx.braces) = 0
            /\ scr'.lx.braces = SubSeq(scr.lx.braces, 1, Len(scr.lx.braces) - 1)
            /\ IF scr.lx.state = "LEX_SPECIAL2"
               THEN \* the "}" held back: the token of the operator before it,
                    \* then the two tokens; the character written is of the string
                    /\ scr.lx.ch1 = "}"
                    /\ SubSeq(NewToks, 1, 3) =
                          <<tok_ks(ks_char(scr.lx.ch2)), tok_ks("KS_RPAREN"), tok_ks("KS_TILDE")>>
                    /\ LET l == lex_process([lex_fwd(scr.lx, Len(scr'.text), Written) EXCEPT
                                     !.state = "LEX_STR_INTERP", !.str = <<>>,
                                     !.tks = scr.lx.tks \o SubSeq(NewToks, 1, 3)])
                       IN  /\ scr'.lx.state = l.state /\ scr'.lx.str = l.str
                           /\ scr'.lx.tks = l.tks
               ELSE /\ Written = "}"
                    /\ scr'.lx.state = "LEX_STR_INTERP" /\ scr'.lx.str = <<>>
                    /\ Len(NewToks) >= 2
                    /\ SubSeq(NewToks, Len(NewToks) - 1, Len(NewToks)) =
                          <<tok_ks("KS_RPAREN"), tok_ks("KS_TILDE")>>]_vars

\* C34 witness: inside ${ a "{" and a "}" have been counted, and the "}"
\* after them has closed the embedded expression
C34_Witness ==
    /\ InLex /\ scr.lx.state = "LEX_STR_INTERP" /\ scr.lx.braces = <<0>>
    /\ \E i \in 1..Len(scr.lx.tks) : scr.lx.tks[i] = tok_ks("KS_LBRACE")
    /\ \E i \in 1..Len(scr.lx.tks) : scr.lx.tks[i] = tok_ks("KS_RBRACE")
    /\ scr.lx.tks[Len(scr.lx.tks)] = tok_ks("KS_TILDE")

\* the text of a single-quoted string without its quotes: '' is one quote
RECURSIVE Unquote(_)
Unquote(raw) ==
    IF raw = <<>> THEN <<>>
    ELSE IF raw[1] = "'"
    THEN IF Len(raw) >= 2 THEN <<"'">> \o Unquote(SubSeq(raw, 3, Len(raw))) ELSE <<>>
    ELSE <<raw[1]>> \o Unquote(Tail(raw))

\* the step that ends a single-quoted string: a character other than the
\* quote after a quote
BasicEnds == InLex /\ scr.lx.state = "LEX_STR_BASIC_ESC" /\ Written # "'" /\ scr'.text # scr.text
BasicText == Unquote(SubSeq(scr.text, scr.lx.flpS + 1, Len(scr.text) - 1))
\* the tokens of the character after the string
AfterBasic ==
    LET l == lex_process([lex_fwd(scr.lx, Len(scr'.text), Written) EXCEPT
                             !.state = "LEX_START", !.str = <<>>, !.tks = <<>>])
    IN  l.tks

\* C35 as stated: the single-quoted string is emitted as one string token
C35_BasicStringOneToken ==
    [][BasicEnds => NewToks = <<tok_str(BasicText)>> \o AfterBasic]_vars

\* C35 amended: the single-quoted string is emitted as an open-paren, one
\* string token with '' taken as one quote, and a close-paren
C35_BasicStringInParens ==
    /\ [][BasicEnds =>
            NewToks = <<tok_ks("KS_LPAREN"), tok_str(BasicText), tok_ks("KS_RPAREN")>>
                         \o AfterBasic]_vars
    /\ [](InLex /\ scr.lx.state \in {"LEX_STR_BASIC", "LEX_STR_BASIC_ESC"} =>
            scr.lx.str = Unquote(SubSeq(scr.text, scr.lx.flpS + 1, Len(scr.text))))

\* C35 witness: a string with a doubled quote inside has been emitted
C35_Witness ==
    /\ InLex /\ Len(scr.lx.tks) >= 3
    /\ \E i \in 1..(Len(scr.lx.tks) - 2) :
          /\ scr.lx.tks[i] = tok_ks("KS_LPAREN")
          /\ scr.lx.tks[i + 1].t = "TOK_STR"
          /\ \E j \in 1..Len(scr.lx.tks[i + 1].v) : scr.lx.tks[i + 1].v[j] = "'"
          /\ \E j \in 1..Len(scr.lx.tks[i + 1].v) : scr.lx.tks[i + 1].v[j] = "a"
          /\ scr.lx.tks[i + 2] = tok_ks("KS_RPAREN")

-----------------------------------------------------------------------------
(* Slices: fix_slice, opi_list_slice, opi_list_splice                        *)

MaxSliceOps == 2
MaxSliceLen == 3
MaxSliceArg == 4

\* fix_slice on the rounded numbers; lenv is <<>> for nil or <<n>> for a number
fix_slice(start0, lenv, objsize) ==
    IF lenv = <<>>
    THEN LET s1 == IF start0 < 0 THEN start0 + objsize ELSE start0
             s2 == IF s1 < 0 THEN 0 ELSE s1
         IN  IF s2 >= objsize THEN [start |-> 0, len |-> 0]
             ELSE [start |-> s2, len |-> objsize - s2]
    ELSE LET neg == lenv[1] < 0
             wasneg == IF neg THEN start0 <= 0 ELSE start0 < 0
             s1 == IF neg THEN start0 + lenv[1] ELSE start0
             l1 == IF neg THEN -lenv[1] ELSE lenv[1]
             s2 == IF wasneg THEN s1 + objsize ELSE s1
             l2 == IF s2 < 0 THEN l1 + s2 ELSE l1
             s3 == IF s2 < 0 THEN 0 ELSE s2
         IN  IF l2 <= 0 THEN [start |-> 0, len |-> 0]
             ELSE IF s3 + l2 > objsize THEN [start |-> s3, len |-> objsize - s3]
             ELSE [start |-> s3, len |-> l2]

\* the cells vals[from .. from + n - 1] (counted from 0) of a list of size
\* Len(vals); a cell past the size holds whatever the memory holds (junk)
Cells(vals, from, n, junk) ==
    [i \in 1..n |-> IF from + i <= Len(vals) THEN vals[from + i] ELSE junk[1 + (i % 2)]]

\* opi_list_slice: [sl, res, outside]
opi_list_slice(vals, b, c, junk) ==
    LET sl == fix_slice(b, c, Len(vals))
    IN  IF Len(vals) <= 0 \/ sl.len <= 0 THEN [sl |-> sl, res |-> <<>>, outside |-> FALSE]
        ELSE [sl |-> sl, res |-> Cells(vals, sl.start, sl.len, junk),
              outside |-> sl.start + sl.len > Len(vals)]

\* opi_list_splice: [sl, vals, outside]; d is <<>> for nil or <<values>> for a list.
\* The cells between the old size and sl.start are never written
opi_list_splice(vals, b, c, d, junk) ==
    LET sl == fix_slice(b, c, Len(vals))
        size == Len(vals)
    IN  IF d = <<>>
        THEN IF sl.len <= 0 THEN [sl |-> sl, vals |-> vals, outside |-> FALSE]
             ELSE [sl |-> sl,
                   vals |-> SubSeq(vals, 1, sl.start) \o
                            SubSeq(vals, sl.start + sl.len + 1, size),
                   outside |-> FALSE]
        ELSE IF sl.len <= 0 /\ Len(d[1]) <= 0 THEN [sl |-> sl, vals |-> vals, outside |-> FALSE]
        ELSE LET tot == size - sl.len + Len(d[1])
                 head == Cells(vals, 0, sl.start, junk)
                 tail == IF size > sl.start + sl.len
                         THEN SubSeq(vals, sl.start + sl.len + 1, size)
                         ELSE <<>>
                 all == head \o d[1] \o tail
             IN  [sl |-> sl,
                  vals |-> [i \in 1..tot |-> IF i <= Len(all) THEN all[i] ELSE junk[1 + (i % 2)]],
                  outside |-> sl.start > size]

SliceLists ==
    {<<>>, <<sink_num(1)>>, <<sink_num(1), sink_num(2)>>,
     <<sink_num(1), sink_num(2), sink_num(3)>>}
SpliceLists == {<<>>, <<sink_num(8)>>, <<sink_num(8), sink_num(9)>>}
SliceArgs == (-MaxSliceArg)..MaxSliceArg
SliceLens == {<<>>} \cup {<<n>> : n \in SliceArgs}
\* what a cell that was never written may hold
JunkVals == {SINK_NIL, sink_num(77)}
SliceInit(vals) ==
    [mode |-> "slice", vals |-> vals, size |-> Len(vals), sl |-> [start |-> 0, len |-> 0],
     res |-> <<>>, outside |-> FALSE, last |-> "none", steps |-> 0, args |-> <<0, <<>>>>,
     d |-> <<>>]

CanSlice == scr.mode = "slice" /\ scr.steps < MaxSliceOps /\ Len(scr.vals) <= MaxSliceLen

OpListSlice ==
    /\ CanSlice
    /\ \E b \in SliceArgs, c \in SliceLens, junk \in [1..2 -> JunkVals] :
          \E r \in {opi_list_slice(scr.vals, b, c, junk)} :
              /\ r.outside \/ junk = [i \in 1..2 |-> SINK_NIL]
              /\ scr' = [scr EXCEPT !.sl = r.sl, !.res = r.res, !.outside = r.outside,
                                    !.size = Len(scr.vals), !.last = "slice",
                                    !.steps = @ + 1, !.args = <<b, c>>, !.d = <<>>]
    /\ UNCHANGED <<prg, valid, ctx, waits, control, host, ghost>>

OpListSplice ==
    /\ CanSlice
    /\ \E b \in SliceArgs, c \in SliceLens, d \in {<<>>} \cup {<<l>> : l \in SpliceLists},
          junk \in [1..2 -> JunkVals] :
          \E r \in {opi_list_splice(scr.vals, b, c, d, junk)} :
              /\ r.outside \/ junk = [i \in 1..2 |-> SINK_NIL]
              /\ scr' = [scr EXCEPT !.sl = r.sl, !.vals = r.vals, !.outside = r.outside,
                                    !.size = Len(scr.vals), !.last = "splice",
                                    !.steps = @ + 1, !.args = <<b, c>>,
                                    !.d = d, !.res = <<>>]
    /\ UNCHANGED <<prg, valid, ctx, waits, control, host, ghost>>

InitSlice ==
    /\ prg = Program(<<>>)
    /\ valid = program_validate(prg)
    /\ ctx = context_new(prg)
    /\ waits = [w \in WaitIds |-> FreeWait]
    /\ control = ControlInit
    /\ host = HostInit
    /\ ghost = GhostInit
    /\ \E vals \in SliceLists : scr = SliceInit(vals)

NextSlice ==
    \/ OpListSlice
    \/ OpListSplice

SpecSlice == InitSlice /\ [][NextSlice]_vars

InSlice == scr.mode = "slice"

\* C36: the range slice and splice work on lies inside the object, and no
\* cell outside it is read or left in the list unwritten
C36_RangeInside ==
    (InSlice /\ scr.last # "none") =>
        /\ 0 <= scr.sl.start /\ 0 <= scr.sl.len
        /\ scr.sl.start + scr.sl.len <= scr.size
        /\ ~scr.outside

\* what holds of the range: it starts at 0 or later and never ends past the
\* object; its length is negative exactly when it starts past the end, and
\* only a splice of a list that is not empty at such a range touches cells
\* outside
RangeNeverPastEnd ==
    (InSlice /\ scr.last # "none") =>
        /\ 0 <= scr.sl.start
        /\ scr.sl.start + scr.sl.len <= scr.size
        /\ (scr.sl.len < 0) = (scr.sl.start > scr.size)
        /\ scr.outside = (scr.last = "splice" /\ scr.sl.len < 0 /\ scr.d \notin {<<>>, <<<<>>>>})

-----------------------------------------------------------------------------
(* list.sort and order over lists that hold lists: sortfwd, memswap,         *)
(* sink_qsort_r_helper, sink_qsort_r, opi_list_sort                          *)

MaxSortOps == 2

\* the lists of the context: p = {1}, x = {p}, y = {x}, a list that holds p
\* twice, a list that holds itself, and two lists to sort
SortLists ==
    << <<>>, <<sink_num(1)>>, <<ListRef(1)>>, <<ListRef(2)>>,
       <<ListRef(1), ListRef(1)>>, <<ListRef(5)>>,
       <<sink_num(2), sink_num(1), sink_num(3)>>,
       <<ListRef(3), ListRef(2), ListRef(1)>> >>
SortHeap ==
    [str_tbl |-> [i \in {} |-> <<>>], str_aloc |-> {},
     list_tbl |-> [i \in 0..(Len(SortLists) - 1) |->
                        [vals |-> SortLists[i + 1], usertype |-> -1, user |-> 0]],
     list_aloc |-> 0..(Len(SortLists) - 1)]
SortVals == {sink_num(1)} \cup {ListRef(i) : i \in 0..(Len(SortLists) - 1)}

\* sortfwd on the cells i and k (from 0) of the list idx; q holds the context
\* and the list of indices of the sortu_st
sortfwd(q, idx, i, k) ==
    CHOOSE y \in
        {[res |-> r.res,
          q |-> [c |-> IF r.failed THEN opi_abort(q.c, "Cannot sort circular lists")
                       ELSE q.c,
                 li |-> r.li]] :
            r \in {sortboth(q.c, q.li, q.c.list_tbl[idx].vals[i + 1],
                            q.c.list_tbl[idx].vals[k + 1])}} : TRUE

\* memswap of the cells i and j of the list idx
memswap(q, idx, i, j) ==
    [q EXCEPT !.c.list_tbl[idx].vals =
                  [@ EXCEPT ![i + 1] = q.c.list_tbl[idx].vals[j + 1],
                            ![j + 1] = q.c.list_tbl[idx].vals[i + 1]]]

\* while (i <= n && compare(thunk, base + i * elsize, key) <= 0) i++;
RECURSIVE qs_up(_, _, _, _, _)
qs_up(q, idx, m, n, i) ==
    IF i > n THEN [i |-> i, q |-> q]
    ELSE CHOOSE y \in
            {IF r.res <= 0 THEN qs_up(r.q, idx, m, n, i + 1) ELSE [i |-> i, q |-> r.q] :
                r \in {sortfwd(q, idx, i, m)}} : TRUE

\* while (j >= m && compare(thunk, base + j * elsize, key) > 0) j--;
\* the key compares equal to itself, so j stops at m at the latest
RECURSIVE qs_down(_, _, _, _)
qs_down(q, idx, m, j) ==
    IF j < m THEN [j |-> j, q |-> q]
    ELSE CHOOSE y \in
            {IF r.res > 0 THEN qs_down(r.q, idx, m, j - 1) ELSE [j |-> j, q |-> r.q] :
                r \in {sortfwd(q, idx, j, m)}} : TRUE

\* while (i <= j) of sink_qsort_r_helper, with the memswap of its body
RECURSIVE qs_loop(_, _, _, _, _, _)
qs_loop(q, idx, m, n, i, j) ==
    IF i > j THEN [j |-> j, q |-> q]
    ELSE CHOOSE y \in
            {CHOOSE z \in
                {qs_loop(IF u.i < d.j THEN memswap(d.q, idx, u.i, d.j) ELSE d.q,
                         idx, m, n, u.i, d.j) :
                    d \in {qs_down(u.q, idx, m, j)}} : TRUE :
                u \in {qs_up(q, idx, m, n, i)}} : TRUE

\* the two recursive calls of sink_qsort_r_helper, after the partition ended
\* with j and the pivot was swapped into place
RECURSIVE sink_qsort_r_helper(_, _, _, _)
qs_rest(q1, idx, m, n, j) ==
    CHOOSE y \in
        {IF n > j + 1 THEN sink_qsort_r_helper(q2, idx, j + 1, n) ELSE q2 :
            q2 \in {IF j > m + 1 THEN sink_qsort_r_helper(q1, idx, m, j - 1) ELSE q1}} : TRUE

sink_qsort_r_helper(q, idx, m, n) ==
    CHOOSE y \in
        {CHOOSE z \in {qs_rest(q1, idx, m, n, l.j) : q1 \in {memswap(l.q, idx, m, l.j)}} : TRUE :
            l \in {qs_loop(q, idx, m, n, m + 1, n)}} : TRUE

\* opi_list_sort (with sink_qsort_r): the context and the list of indices as
\* they are just before list_int_free
opi_list_sort(c, a) ==
    IF ~sink_islist(a)
    THEN [c |-> opi_abort(c, "Expecting list for list.sort"), li |-> <<>>]
    ELSE LET idx == var_index(a)
             q == [c |-> c, li |-> <<>>]
         IN  IF Len(c.list_tbl[idx].vals) <= 1 THEN q
             ELSE sink_qsort_r_helper(q, idx, 0, Len(c.list_tbl[idx].vals) - 1)

\* the lists a list holds, the lists reachable from a set of lists, and whether
\* a value really contains a cycle: a list reachable from it that holds itself,
\* directly or through other lists
ListsIn(c, k) ==
    {var_index(c.list_tbl[k].vals[i]) :
        i \in {n \in 1..Len(c.list_tbl[k].vals) : sink_islist(c.list_tbl[k].vals[n])}}
RECURSIVE ListsBelow(_, _)
ListsBelow(c, S) ==
    LET T == S \cup UNION {ListsIn(c, k) : k \in S}
    IN  IF T = S THEN S ELSE ListsBelow(c, T)
HasCycle(c, v) ==
    /\ sink_islist(v)
    /\ \E k \in ListsBelow(c, {var_index(v)}) : k \in ListsBelow(c, ListsIn(c, k))

SortInit ==
    [mode |-> "sort", steps |-> 0, last |-> "none", a |-> SINK_NIL, b |-> SINK_NIL,
     cyc |-> FALSE, li |-> <<>>, res |-> 0]

CanSort == scr.mode = "sort" /\ scr.steps < MaxSortOps /\ ~ctx.failed

\* OP_ORDER on two values of the context
OpSortOrder ==
    /\ CanSort
    /\ \E a \in SortVals, b \in SortVals :
         \E r \in {opi_order(ctx, a, b)} :
            /\ scr' = [scr EXCEPT !.steps = @ + 1, !.last = "order", !.a = a, !.b = b,
                                  !.cyc = HasCycle(ctx, a) \/ HasCycle(ctx, b),
                                  !.li = r.li, !.res = r.res]
            /\ ctx' = IF r.failed THEN opi_abort(ctx, "Cannot sort circular lists")
                      ELSE ctx
    /\ UNCHANGED <<prg, valid, waits, control, host, ghost>>

\* OP_LIST_SORT on a value of the context
OpListSort ==
    /\ CanSort
    /\ \E a \in SortVals :
         \E r \in {opi_list_sort(ctx, a)} :
            /\ scr' = [scr EXCEPT !.steps = @ + 1, !.last = "sort", !.a = a,
                                  !.b = SINK_NIL, !.cyc = HasCycle(ctx, a),
                                  !.li = r.li, !.res = 0]
            /\ ctx' = r.c
    /\ UNCHANGED <<prg, valid, waits, control, host, ghost>>

InitSort ==
    /\ prg = Program(<<>>)
    /\ valid = program_validate(prg)
    /\ ctx = SortHeap @@ context_pools(prg) @@ context_new(prg)
    /\ waits = [w \in WaitIds |-> FreeWait]
    /\ control = ControlInit
    /\ host = HostInit
    /\ ghost = GhostInit
    /\ scr = SortInit

NextSort ==
    \/ OpSortOrder
    \/ OpListSort

SpecSort == InitSort /\ [][NextSort]_vars

InSort == scr.mode = "sort"
CircularError == ctx.failed /\ ctx.err = "Cannot sort circular lists"

\* C37: comparing or sorting lists aborts with the circular-list error only
\* when an operand really contains a cycle, and the list of visited indices is
\* the same after the comparison as before it (empty).
C37_AbortOnlyOnCycle ==
    (InSort /\ scr.last # "none") =>
        /\ CircularError => scr.cyc
        /\ scr.li = <<>>

\* the part that holds: the list of visited indices is empty again after every
\* comparison and every sort, aborted or not
VisitedRestored == InSort => scr.li = <<>>

\* a comparison of lists that aborts has an operand that holds a list
HoldsList(c, v) == sink_islist(v) /\ ListsIn(c, var_index(v)) # {}
AbortNeedsNesting ==
    (InSort /\ CircularError) => (HoldsList(ctx, scr.a) \/ HoldsList(ctx, scr.b))

-----------------------------------------------------------------------------
(* symtbl_popScope and symtbl_popFrame that report an error                  *)

PopFails == scr'.err # "NULL"

\* C39: a symtbl_popFrame (with the symtbl_popScope it starts with) that
\* reports an error leaves the scope and the frame as they were before the call
C39_FailedPopUnchanged ==
    [][(Compiling /\ PopStep /\ PopFails) => (scr'.sc = scr.sc /\ scr'.fr = scr.fr)]_vars

\* the part that holds: no failed pop changes the frame, and a pop that fails
\* in symtbl_popScope, on a command declared and not defined, changes nothing
FailedPopKeepsFrame ==
    [][(Compiling /\ PopStep /\ PopFails) =>
          /\ scr'.fr = scr.fr
          /\ scr'.err = "Failed to define" => scr'.sc = scr.sc
          /\ scr'.err = "Missing label" => scr'.sc = SubSeq(scr.sc, 1, Len(scr.sc) - 1)]_vars

\* both errors of a pop have been seen
C39_FailedDefineSeen == Compiling /\ scr.err = "Failed to define" /\ scr.last = "popFrame"

-----------------------------------------------------------------------------
(* The tick budget when the host has control: sink_ctx_settimeout,           *)
(* sink_ctx_consumeticks, sink_ctx_forcetimeout and sink_gc_run between the  *)
(* runs of a program                                                         *)

MaxTickCalls == 2
MaxOpsT == 8
MaxRunsT == 3

TickCorpus == {Program(PrgNativeLoop), Program(PrgSay), Program(PrgLoop)}
TickTimeouts == {-1, 0, 3, IntMax}
TickAmounts == {-IntMax - 1, -1, 0, 2, IntMax}

CanTick == scr.mode = "ticks" /\ control.at = "host" /\ scr.calls < MaxTickCalls
Ticked(what) == scr' = [scr EXCEPT !.calls = @ + 1, !.last = what]

\* sink_ctx_settimeout by the host, at any time it has control
HostTicksSet ==
    /\ CanTick
    /\ \E t \in TickTimeouts : ctx' = sink_ctx_settimeout(ctx, t)
    /\ Ticked("settimeout")
    /\ UNCHANGED <<prg, valid, waits, control, host, ghost>>

\* sink_ctx_consumeticks by the host
HostTicksConsume ==
    /\ CanTick
    /\ \E a \in TickAmounts :
          \E ub \in ConsumeOutcomes(ctx, a) : ctx' = sink_ctx_consumeticks(ctx, a, ub)
    /\ Ticked("consumeticks")
    /\ UNCHANGED <<prg, valid, waits, control, host, ghost>>

\* sink_ctx_forcetimeout by the host
HostTicksForce ==
    /\ CanTick
    /\ ctx' = sink_ctx_forcetimeout(ctx)
    /\ Ticked("forcetimeout")
    /\ UNCHANGED <<prg, valid, waits, control, host, ghost>>

\* sink_gc_run by the host
HostGcRun ==
    /\ CanTick
    /\ ctx' = context_gc(ctx)
    /\ Ticked("gc")
    /\ UNCHANGED <<prg, valid, waits, control, host, ghost>>

InitTicks ==
    /\ prg \in TickCorpus
    /\ valid = program_validate(prg)
    /\ ctx = RegisterNatives(context_new(prg), prg.keys)
    /\ waits = [w \in WaitIds |-> FreeWait]
    /\ control = ControlInit
    /\ host = HostInit
    /\ ghost = GhostInit
    /\ scr = [mode |-> "ticks", calls |-> 0, last |-> "none"]

NextTicks ==
    \/ HostTicksSet
    \/ HostTicksConsume
    \/ HostTicksForce
    \/ HostGcRun
    \/ HostRun(MaxRunsT)
    \/ Step(MaxOpsT)
    \/ HostResult

SpecTicks == InitTicks /\ [][NextTicks]_vars

InTicks == scr.mode = "ticks"

\* C40: whenever the host has control, 0 <= timeout_left <= timeout
C40_TicksInRange ==
    (InTicks /\ control.at = "host") =>
        (0 <= ctx.timeout_left /\ ctx.timeout_left <= ctx.timeout)

\* the part that holds: timeout is never negative, timeout_left never above
\* it, and with a timeout of at most half the range of int (no difference can
\* overflow) timeout_left is never negative when the host has control
TicksInRangeBelowHalf ==
    (InTicks /\ control.at = "host") =>
        /\ 0 <= ctx.timeout /\ ctx.timeout_left <= ctx.timeout
        /\ ctx.timeout <= IntMax \div 2 => 0 <= ctx.timeout_left

-----------------------------------------------------------------------------
(* A binary file written in pieces: sink_scr_write called with any split of  *)
(* the file into consecutive pieces, against one call with the whole file    *)

\* a binary file with the given strings, keys, debug strings, positions,
\* commands and opcodes
RECURSIVE Sized(_)
Sized(strs) ==
    IF strs = <<>> THEN <<>> ELSE u32(Len(Head(strs))) \o Head(strs) \o Sized(Tail(strs))
RECURSIVE Words(_)
Words(ns) == IF ns = <<>> THEN <<>> ELSE u32(Head(ns)) \o Words(Tail(ns))
BinFileOf(strs, keys, dbgs, poss, cmds, ops) ==
    u32(BinMagic) \o u32(Len(strs)) \o u32(Len(keys) \div 2) \o u32(Len(dbgs))
        \o u32(Len(poss) \div 4) \o u32(Len(cmds) \div 2) \o u32(Len(ops))
        \o Sized(strs) \o Words(keys) \o Sized(dbgs) \o Words(poss) \o Words(cmds)
        \o ops \o <<BinLast>>

\* a file with every table filled (an empty string among the strings, a
\* position and a command whose debug index is out of range), and a file with
\* code that validation rejects
FullFile ==
    BinFileOf(<< <<10>>, <<>>, <<97, 98>> >>, <<1, 0, 2, 0>>, << <<102>> >>,
              <<0, 1, 1, 0, 1, 2, 1, 5>>, <<0, 0, 1, 7>>, PrgSay)
BadCodeFile == BinFileOf(<< <<10>> >>, <<1, 0>>, <<>>, <<>>, <<>>, <<200>>)

\* the length of the file that ends inside a string
TruncatedAt == 40

\* the files written: whole ones, and damaged ones (a wrong first word, a
\* wrong last byte with bytes after it, an end inside a string, bytes after the
\* last byte)
SplitFiles ==
    {FullFile, BadCodeFile, BinFile(I_NOP),
     [BinFile(I_NOP) EXCEPT ![2] = 0],
     [BinFile(I_NOP) EXCEPT ![Len(BinFile(I_NOP))] = 0] \o <<0, BinLast>>,
     SubSeq(FullFile, 1, TruncatedAt),
     BinFile(I_NOP) \o <<0, 0>>}
SplitFeeds == {"eval", "repl", "file"}

\* the script and the program before the first write; a file that is loaded
\* has its name set by sfr_begin
SplitScript(feed, file) ==
    [sink_scr_new(feed, file) EXCEPT !.file = feed = "file"]
SplitProgram(feed) == program_new(feed = "repl")

SplitInit(feed, file) ==
    [mode |-> "split", feed |-> feed, given |-> file, rest |-> file,
     sc |-> SplitScript(feed, file), p |-> SplitProgram(feed), res |-> TRUE,
     nwrites |-> 0, inside |-> FALSE, ended |-> FALSE]

\* one sink_scr_write of the next piece of the file, of any size; the read
\* of a file stops at the first write that fails
WritePiece ==
    /\ scr.mode = "split"
    /\ ~scr.ended
    /\ scr.feed = "file" => scr.res
    /\ \E n \in 1..Len(scr.rest) :
         \E r \in {sink_scr_write(scr.sc, scr.p, SubSeq(scr.rest, 1, n))} :
            scr' = [scr EXCEPT !.sc = r.sc, !.p = r.p, !.res = r.res,
                               !.rest = SubSeq(scr.rest, n + 1, Len(scr.rest)),
                               !.nwrites = IF @ < 3 THEN @ + 1 ELSE @,
                               !.inside = @ \/ (/\ r.sc.binstate.buf # <<>>
                                                  /\ r.sc.binstate.left > 0)]
    /\ UNCHANGED <<prg, valid, ctx, waits, control, host, ghost>>

\* sfr_end, after the last piece of a file or the piece that failed
FileEnd ==
    /\ scr.mode = "split"
    /\ scr.feed = "file" /\ ~scr.ended
    /\ scr.nwrites > 0
    /\ scr.rest = <<>> \/ ~scr.res
    /\ \E sc1 \in {sfr_end(scr.sc, scr.p)} :
            scr' = [scr EXCEPT !.sc = sc1, !.res = sc1.err = "NULL", !.ended = TRUE]
    /\ UNCHANGED <<prg, valid, ctx, waits, control, host, ghost>>

InitSplit ==
    /\ prg = Program(<<>>)
    /\ valid = program_validate(prg)
    /\ ctx = context_new(prg)
    /\ waits = [w \in WaitIds |-> FreeWait]
    /\ control = ControlInit
    /\ host = HostInit
    /\ ghost = GhostInit
    /\ scr \in {SplitInit(feed, file) : feed \in SplitFeeds, file \in SplitFiles}

NextSplit ==
    \/ WritePiece
    \/ FileEnd

SpecSplit == InitSplit /\ [][NextSplit]_vars

InSplit == scr.mode = "split"

\* the whole file has been written (and the read of a file ended)
SplitDone ==
    /\ scr.nwrites > 0
    /\ IF scr.feed = "file" THEN scr.ended ELSE scr.rest = <<>>

\* the result of the one write of the whole file, or of the load of the file
\* read in one piece
OneWrite(feed, file) ==
    IF feed = "file"
    THEN sink_scr_loadfile(sink_scr_new(feed, file), SplitProgram(feed), file)
    ELSE sink_scr_write(SplitScript(feed, file), SplitProgram(feed), file)
Outcome(p, sc, res) ==
    [strTable |-> p.strTable, keyTable |-> p.keyTable, debugTable |-> p.debugTable,
     posTable |-> p.posTable, cmdTable |-> p.cmdTable, ops |-> p.ops,
     res |-> res, err |-> sc.err]

\* C38: a binary module written in any sequence of consecutive pieces gives
\* the same string, key, debug, position and command tables, the same opcode
\* buffer and the same accept/reject outcome (with the same error) as the
\* module written in one piece, once the last byte has been written.
C38_SplitWritesSameResult ==
    (InSplit /\ SplitDone) =>
        \A r \in {OneWrite(scr.feed, scr.given)} :
            Outcome(scr.p, scr.sc, scr.res) = Outcome(r.p, r.sc, r.res)

\* C38 witness: the file with every table filled has been accepted after three
\* writes or more, one of which ended inside a record
C38_Witness ==
    /\ InSplit /\ SplitDone /\ scr.feed = "eval"
    /\ scr.given = FullFile /\ scr.res
    /\ scr.nwrites >= 3 /\ scr.inside
    /\ Len(scr.p.strTable) = 3 /\ Len(scr.p.posTable) = 2 /\ scr.p.ops = PrgSay

\* a damaged file has been rejected after three writes or more
C38_RejectSeen ==
    /\ InSplit /\ SplitDone /\ ~scr.res /\ scr.nwrites >= 3
    /\ scr.given # FullFile

=============================================================================
